---- MODULE Spec2Model ----
(***************************************************************************)
(* Geographic aggregation engine of rendez-vous: great-circle distance,    *)
(* centroid and geometric median (Weiszfeld iteration).                    *)
(*                                                                         *)
(* The engine computes on JavaScript numbers (IEEE-754 binary64).  The     *)
(* model keeps the arithmetic of the source operation by operation, on a   *)
(* binary floating-point format with the same rounding rule (round to      *)
(* nearest, ties to even), the same special values (NaN, +Infinity,        *)
(* -Infinity) and a mantissa of Prec bits instead of 53.  A number is a    *)
(* record [k, m, e]: k = "num" stands for m * 2^e with m = 0 (and e = 0)   *)
(* or 2^(Prec-1) <= |m| < 2^Prec; k = "inf" has m = 1 or -1; k = "nan".    *)
(* The exponent is unbounded (no overflow or underflow to zero), and the   *)
(* sign of zero is not kept.                                               *)
(***************************************************************************)
EXTENDS Integers, Sequences, FiniteSets

\* Number of mantissa bits of the modelled floating-point format.
Prec == 8

\* ------------------------------------------------------------------------
\* Floating-point arithmetic (JavaScript number operators + - * / <)
\* ------------------------------------------------------------------------

NaN == [k |-> "nan", m |-> 0, e |-> 0]

Inf(s) == [k |-> "inf", m |-> s, e |-> 0]

Zero == [k |-> "num", m |-> 0, e |-> 0]

Abs(n) == IF n < 0 THEN -n ELSE n

Sgn(n) == IF n > 0 THEN 1 ELSE IF n < 0 THEN -1 ELSE 0

RECURSIVE BitLen(_)
BitLen(M) == IF M = 0 THEN 0 ELSE 1 + BitLen(M \div 2)

\* The number nearest to sign * (M + f) * 2^E, where M >= 0 and 0 <= f < 1
\* with f > 0 exactly when sticky: round to nearest, ties to even.
\* (Definitions take their operands as parameters rather than naming them
\* in a LET wherever an operand is used more than once.)
RoundsUp(q, r, half, sticky) == r > half \/ (r = half /\ (sticky \/ q % 2 = 1))

Carry(sign, q, e) ==
  IF q = 2^Prec
  THEN [k |-> "num", m |-> sign * 2^(Prec - 1), e |-> e + 1]
  ELSE [k |-> "num", m |-> sign * q, e |-> e]

RoundAt(sign, M, E, sticky, s) ==
  IF s <= 0
  THEN [k |-> "num", m |-> sign * M * 2^(-s), e |-> E + s]
  ELSE Carry(sign,
             (M \div 2^s) + (IF RoundsUp(M \div 2^s, M % 2^s, 2^(s - 1), sticky) THEN 1 ELSE 0),
             E + s)

Norm(sign, M, E, sticky) ==
  IF M = 0 THEN Zero ELSE RoundAt(sign, M, E, sticky, BitLen(M) - Prec)

\* The number nearest to v * 2^E for an integer v.
NormSigned(v, E) == Norm(IF v < 0 THEN -1 ELSE 1, Abs(v), E, FALSE)

\* An integer literal of the source as a number.
FromInt(n) == NormSigned(n, 0)

FNeg(a) == IF a.k = "nan" THEN a ELSE [a EXCEPT !.m = -a.m]

\* hi + lo for finite non-zero numbers with hi.e >= lo.e
AddAligned(hi, lo) ==
  IF hi.e - lo.e > Prec + 1 THEN hi
  ELSE NormSigned(hi.m * 2^(hi.e - lo.e) + lo.m, lo.e)

\* a + b
FAdd(a, b) ==
  IF a.k = "nan" \/ b.k = "nan" THEN NaN
  ELSE IF a.k = "inf" THEN (IF b.k = "inf" /\ b.m # a.m THEN NaN ELSE a)
  ELSE IF b.k = "inf" THEN b
  ELSE IF a.m = 0 THEN b
  ELSE IF b.m = 0 THEN a
  ELSE IF a.e >= b.e THEN AddAligned(a, b) ELSE AddAligned(b, a)

\* a - b
FSub(a, b) == FAdd(a, FNeg(b))

\* a * b
FMul(a, b) ==
  IF a.k = "nan" \/ b.k = "nan" THEN NaN
  ELSE IF a.k = "inf" \/ b.k = "inf"
       THEN (IF a.m = 0 \/ b.m = 0 THEN NaN ELSE Inf(Sgn(a.m) * Sgn(b.m)))
  ELSE IF a.m = 0 \/ b.m = 0 THEN Zero
  ELSE Norm(Sgn(a.m) * Sgn(b.m), Abs(a.m) * Abs(b.m), a.e + b.e, FALSE)

\* a / b
FDiv(a, b) ==
  IF a.k = "nan" \/ b.k = "nan" THEN NaN
  ELSE IF a.k = "inf"
       THEN (IF b.k = "inf" THEN NaN ELSE Inf(a.m * (IF b.m < 0 THEN -1 ELSE 1)))
  ELSE IF b.k = "inf" THEN Zero
  ELSE IF b.m = 0 THEN (IF a.m = 0 THEN NaN ELSE Inf(Sgn(a.m)))
  ELSE IF a.m = 0 THEN Zero
  ELSE Norm(Sgn(a.m) * Sgn(b.m),
            (Abs(a.m) * 2^(Prec + 2)) \div Abs(b.m),
            a.e - b.e - (Prec + 2),
            (Abs(a.m) * 2^(Prec + 2)) % Abs(b.m) # 0)

\* a < b (false whenever an operand is NaN)
FLt(a, b) ==
  IF a.k = "nan" \/ b.k = "nan" THEN FALSE
  ELSE IF a.k = "inf" THEN a.m < 0 /\ ~(b.k = "inf" /\ b.m < 0)
  ELSE IF b.k = "inf" THEN b.m > 0
  ELSE FSub(a, b).m < 0

IsFinite(a) == a.k = "num"

One == FromInt(1)

Two == FromInt(2)

\* ------------------------------------------------------------------------
\* Math.PI, Math.sin, Math.cos, Math.sqrt, Math.asin
\*
\* The elementary functions are evaluated in fixed point with FxOne units
\* per 1 (absolute accuracy about 2/FxOne) and then rounded to the format.
\* Like the library functions they are odd (sin, asin) or even (cos), map
\* 0 to 0 (sin, asin, sqrt) and to 1 (cos), and return arguments of small
\* magnitude unchanged (sin, asin).  sqrt is correctly rounded.
\* ------------------------------------------------------------------------

FxOne == 2^14

\* pi * 2^20, rounded to an integer
PiScaled == 3294199

\* pi, pi/2 and 2*pi in fixed point (2^20 / FxOne = 2^6)
PiFx == (PiScaled + 2^5) \div 2^6

HalfPiFx == (PiScaled + 2^6) \div 2^7

TwoPiFx == (PiScaled + 2^4) \div 2^5

\* Math.PI
PI == Norm(1, PiScaled, -20, TRUE)

\* |x| < 2^-(Prec \div 2 + 1): sin x and asin x round to x
IsSmall(x) == x.e + Prec <= -((Prec \div 2) + 1)

\* |x| in fixed point, rounded down
ToFx(x) ==
  LET s == x.e + 14
  IN IF s >= 0 THEN Abs(x.m) * 2^s ELSE Abs(x.m) \div 2^(-s)

FxMul(a, b) == (a * b) \div FxOne

\* sin T for 0 <= T <= pi/2 in fixed point (Taylor polynomial of degree 9)
SinHorner(T, z) ==
  FxMul(T, FxOne - (FxMul(z, FxOne - (FxMul(z, FxOne - (FxMul(z,
           FxOne - (FxMul(z, FxOne) \div 72)) \div 42)) \div 20)) \div 6))

SinPoly(T) == SinHorner(T, FxMul(T, T))

\* sin T for 0 <= T <= pi in fixed point
SinHalfTurn(T) == SinPoly(IF T > HalfPiFx THEN PiFx - T ELSE T)

\* sin T for 0 <= T < 2*pi in fixed point
SinTurn(T) == IF T > PiFx THEN -SinHalfTurn(T - PiFx) ELSE SinHalfTurn(T)

\* sin X for X >= 0 in fixed point
SinFx(X) == SinTurn(X % TwoPiFx)

\* Math.sin(x)
FSin(x) ==
  IF x.k # "num" THEN NaN
  ELSE IF x.m = 0 \/ IsSmall(x) THEN x
  ELSE NormSigned(Sgn(x.m) * SinFx(ToFx(x)), -14)

\* Math.cos(x)
FCos(x) ==
  IF x.k # "num" THEN NaN
  ELSE IF x.m = 0 THEN One
  ELSE NormSigned(SinFx(ToFx(x) + HalfPiFx), -14)

\* The integer square root of M >= 0, by bisection on [lo, hi)
RECURSIVE ISqrtIn(_, _, _)
ISqrtIn(M, lo, hi) ==
  IF hi - lo <= 1 THEN lo
  ELSE LET mid == (lo + hi) \div 2
       IN IF mid * mid <= M THEN ISqrtIn(M, mid, hi) ELSE ISqrtIn(M, lo, mid)

ISqrt(M) == ISqrtIn(M, 0, 2^15)

SqrtRounded(M, r, E) == Norm(1, r, E, r * r # M)

\* sqrt of x = (x.m * 2^s) * 2^(x.e - s) for finite x > 0, with x.e - s even
SqrtScaled(x, s) == SqrtRounded(x.m * 2^s, ISqrt(x.m * 2^s), (x.e - s) \div 2)

\* Math.sqrt(x)
FSqrt(x) ==
  IF x.k = "nan" THEN NaN
  ELSE IF x.m < 0 THEN NaN
  ELSE IF x.k = "inf" THEN x
  ELSE IF x.m = 0 THEN Zero
  ELSE SqrtScaled(x, IF (x.e - (Prec + 2)) % 2 = 0 THEN Prec + 2 ELSE Prec + 1)

\* asin Y for 0 <= Y <= 1/2 in fixed point (Taylor polynomial of degree 13)
AsinHorner(Y, z) ==
  FxMul(Y, FxOne + FxMul(z, FxOne \div 6 + FxMul(z, (3 * FxOne) \div 40
           + FxMul(z, (15 * FxOne) \div 336 + FxMul(z, (105 * FxOne) \div 3456
           + FxMul(z, (945 * FxOne) \div 42240
           + FxMul(z, (10395 * FxOne) \div 599040)))))))

AsinPoly(Y) == AsinHorner(Y, FxMul(Y, Y))

\* asin Y for 0 <= Y <= 1 in fixed point
AsinFx(Y) ==
  IF 2 * Y <= FxOne
  THEN AsinPoly(Y)
  ELSE HalfPiFx - 2 * AsinPoly(ISqrt(((FxOne - Y) \div 2) * FxOne))

\* Math.asin(y)
FAsin(y) ==
  IF y.k # "num" THEN NaN
  ELSE IF y.m = 0 \/ IsSmall(y) THEN y
  ELSE IF FLt(One, y) \/ FLt(y, FNeg(One)) THEN NaN
  ELSE NormSigned(Sgn(y.m) * AsinFx(ToFx(y)), -14)

\* atan Q for 0 <= Q <= 1 in fixed point: asin(Q / sqrt(1 + Q^2))
AtanFx(Q) == AsinFx((Q * FxOne) \div ISqrt(FxOne * FxOne + Q * Q))

\* the angle of (ax, ay) for ax, ay >= 0, not both 0, in fixed point
AngleFx(ay, ax) ==
  IF FLt(ax, ay)
  THEN HalfPiFx - AtanFx(ToFx(FDiv(ax, ay)))
  ELSE AtanFx(ToFx(FDiv(ay, ax)))

\* atan2 for x # 0, y # 0: q = |y| / |x|, A the angle of (|x|, |y|); a
\* quotient of small magnitude is its own arc tangent
Atan2Signed(y, x, q, A) ==
  IF x.m > 0 /\ IsSmall(q)
  THEN NormSigned(Sgn(y.m) * q.m, q.e)
  ELSE NormSigned(Sgn(y.m) * (IF x.m < 0 THEN PiFx - A ELSE A), -14)

\* Math.atan2(y, x)
FAtan2(y, x) ==
  IF y.k # "num" \/ x.k # "num" THEN NaN
  ELSE IF y.m = 0 THEN (IF x.m >= 0 THEN Zero ELSE PI)
  ELSE IF x.m = 0 THEN NormSigned(Sgn(y.m) * HalfPiFx, -14)
  ELSE Atan2Signed(y, x, FDiv([y EXCEPT !.m = Abs(y.m)], [x EXCEPT !.m = Abs(x.m)]),
                   AngleFx([y EXCEPT !.m = Abs(y.m)], [x EXCEPT !.m = Abs(x.m)]))

\* ------------------------------------------------------------------------
\* Distance metric
\* ------------------------------------------------------------------------

EARTH_RADIUS_KM == 6371

\* Convert degrees to radians
toRad(deg) == FDiv(FMul(deg, PI), FromInt(180))

\* variant: h takes the cosine of the latitude of a only
haversineOfOneCosine(a, b, halfSinLat, halfSinLng) ==
  FMul(FMul(Two, FromInt(EARTH_RADIUS_KM)),
       FAsin(FSqrt(
         FAdd(FMul(halfSinLat, halfSinLat),
              FMul(FMul(FMul(FCos(toRad(a.lat)), FCos(toRad(a.lat))),
                        halfSinLng), halfSinLng)))))

\* Great-circle distance in kilometers between the points a and b
haversineOf(a, b, halfSinLat, halfSinLng) ==
  FMul(FMul(Two, FromInt(EARTH_RADIUS_KM)),
       FAsin(FSqrt(
         \* h
         FAdd(FMul(halfSinLat, halfSinLat),
              FMul(FMul(FMul(FCos(toRad(a.lat)), FCos(toRad(b.lat))),
                        halfSinLng), halfSinLng)))))

\* variant: the latitudes are added where the source subtracts them
haversineDistanceAdded(a, b) ==
  haversineOf(a, b,
              FSin(FDiv(toRad(FAdd(b.lat, a.lat)), Two)),
              FSin(FDiv(toRad(FSub(b.lng, a.lng)), Two)))

haversineDistance(a, b) ==
  haversineOf(a, b,
              \* halfSinLat = Math.sin(dLat / 2), dLat = toRad(b.lat - a.lat)
              FSin(FDiv(toRad(FSub(b.lat, a.lat)), Two)),
              \* halfSinLng = Math.sin(dLng / 2), dLng = toRad(b.lng - a.lng)
              FSin(FDiv(toRad(FSub(b.lng, a.lng)), Two)))

\* ------------------------------------------------------------------------
\* ECEF coordinates
\* ------------------------------------------------------------------------

\* Convert radians to degrees
toDeg(rad) == FDiv(FMul(rad, FromInt(180)), PI)

NoCoord == [x |-> Zero, y |-> Zero, z |-> Zero]

\* the coordinate of toECEF from latRad, lngRad and cosLat
ecefOf(latRad, lngRad, cosLat) ==
  [x |-> FMul(FMul(FromInt(EARTH_RADIUS_KM), cosLat), FCos(lngRad)),
   y |-> FMul(FMul(FromInt(EARTH_RADIUS_KM), cosLat), FSin(lngRad)),
   z |-> FMul(FromInt(EARTH_RADIUS_KM), FSin(latRad))]

ecefAt(latRad, lngRad) == ecefOf(latRad, lngRad, FCos(latRad))

\* variant: the longitude is taken as it is, in degrees
toECEFDegrees(point) == ecefAt(toRad(point.lat), point.lng)

\* Convert geographic coordinates to ECEF
toECEF(point) == ecefAt(toRad(point.lat), toRad(point.lng))

\* Convert ECEF coordinates back to geographic coordinates
fromECEF(coord) ==
  [lat |-> toDeg(FAsin(FDiv(coord.z, FromInt(EARTH_RADIUS_KM)))),
   lng |-> toDeg(FAtan2(coord.y, coord.x))]

\* ------------------------------------------------------------------------
\* Outcomes of a call: a thrown Error, a returned point, a returned number
\* ------------------------------------------------------------------------

Origin == [lat |-> Zero, lng |-> Zero]

NoResult == [kind |-> "none", msg |-> "", point |-> Origin, num |-> Zero]

Thrown(message) == [kind |-> "error", msg |-> message, point |-> Origin, num |-> Zero]

Returned(p) == [kind |-> "value", msg |-> "", point |-> p, num |-> Zero]

ReturnedNumber(x) == [kind |-> "number", msg |-> "", point |-> Origin, num |-> x]

\* ------------------------------------------------------------------------
\* Centroid
\* ------------------------------------------------------------------------

\* variant: centroid without its check of the array length
centroidAcceptsAll(points) == FALSE

\* points.length === 0 in centroid
centroidRejects(points) == Len(points) = 0

\* the initial value of the reduction
sumStart == [lat |-> Zero, lng |-> Zero]

\* variant: the reducer adds the latitude to both sums
addPointLatTwice(acc, p) == [lat |-> FAdd(acc.lat, p.lat), lng |-> FAdd(acc.lng, p.lat)]

\* (acc, p) => ({ lat: acc.lat + p.lat, lng: acc.lng + p.lng })
addPoint(acc, p) == [lat |-> FAdd(acc.lat, p.lat), lng |-> FAdd(acc.lng, p.lng)]

\* points.reduce(...): the sum of the first k points, left to right
RECURSIVE sumUpTo(_, _)
sumUpTo(points, k) ==
  IF k = 0 THEN sumStart ELSE addPoint(sumUpTo(points, k - 1), points[k])

\* variant: the sum divided by one more than the length
meanOfOneMore(sum, length) == FDiv(sum, FromInt(length + 1))

\* sum / points.length
meanOf(sum, length) == FDiv(sum, FromInt(length))

\* the point centroid returns for a non-empty array
meanPoint(sum, length) == [lat |-> meanOf(sum.lat, length), lng |-> meanOf(sum.lng, length)]

centroidOf(points) == meanPoint(sumUpTo(points, Len(points)), Len(points))

centroid(points) ==
  IF centroidRejects(points)
  THEN Thrown("Cannot calculate centroid of empty array")
  ELSE Returned(centroidOf(points))

\* ------------------------------------------------------------------------
\* Geometric median (Weiszfeld iteration)
\* ------------------------------------------------------------------------

DEFAULT_MAX_ITERATIONS == 1000

\* 1e-7
DEFAULT_EPSILON == Norm(1, 879609, -43, TRUE)

\* options?.maxIterations ?? DEFAULT_MAX_ITERATIONS
maxIterationsOf(options) ==
  IF options.hasMaxIterations THEN options.maxIterations ELSE DEFAULT_MAX_ITERATIONS

\* options?.epsilon ?? DEFAULT_EPSILON
epsilonOf(options) ==
  IF options.hasEpsilon THEN options.epsilon ELSE DEFAULT_EPSILON

\* points.length === 0 in geometricMedian
medianRejects(points) == Len(points) = 0

\* variant: only a single point is returned directly
fewPointsOnlyOne(points) == Len(points) <= 1

\* points.length <= 2
fewPoints(points) == Len(points) <= 2

\* variant: the loop runs one pass more
loopContinuesInclusive(i, maxIterations) == i <= maxIterations

\* i < maxIterations
loopContinues(i, maxIterations) == i < maxIterations

\* dist < epsilon
coincides(dist, epsilon) == FLt(dist, epsilon)

\* variant: the coincidence guard returns the estimate
coincidentResultEstimate(point, estimate) == Returned(estimate)

\* return { ...point }
coincidentResult(point, estimate) == Returned(point)

\* { ...point }: the object returned for the k-th of the n input objects
\* (numbered 1..n) is a new one
spreadOf(k, n) == n + 1

\* variant: running out of iterations is an error
bestEstimateThrows(estimate) == Thrown("Geometric median did not converge")

\* return estimate, after the loop
bestEstimate(estimate) == Returned(estimate)

noSums == [hit |-> 0, evals |-> 0, weightSum |-> Zero, latSum |-> Zero, lngSum |-> Zero]

\* for (const point of points) { ... } from the k-th point on: hit is the
\* index of the point that ended the loop by the coincidence guard (0 when
\* the loop ran to its end), evals the number of distances computed.
\* weightSum += weight; latSum += weight * point.lat; lngSum += weight * point.lng
accumulate(acc, k, point, weight) ==
  [hit       |-> 0,
   evals     |-> k,
   weightSum |-> FAdd(acc.weightSum, weight),
   latSum    |-> FAdd(acc.latSum, FMul(weight, point.lat)),
   lngSum    |-> FAdd(acc.lngSum, FMul(weight, point.lng))]

RECURSIVE innerLoop(_, _, _, _, _)

\* the body of the inner loop for the k-th point, at distance dist
innerStep(points, estimate, epsilon, k, acc, dist) ==
  IF coincides(dist, epsilon)
  THEN [acc EXCEPT !.hit = k, !.evals = k]
  ELSE innerLoop(points, estimate, epsilon, k + 1,
                 accumulate(acc, k, points[k], FDiv(One, dist)))

innerLoop(points, estimate, epsilon, k, acc) ==
  IF k > Len(points) THEN acc
  ELSE innerStep(points, estimate, epsilon, k, acc,
                 haversineDistance(estimate, points[k]))

\* const next = { lat: latSum / weightSum, lng: lngSum / weightSum }
nextEstimate(sums) ==
  [lat |-> FDiv(sums.latSum, sums.weightSum), lng |-> FDiv(sums.lngSum, sums.weightSum)]

\* haversineDistance(estimate, next) < epsilon
converged(estimate, next, epsilon) == FLt(haversineDistance(estimate, next), epsilon)

\* ------------------------------------------------------------------------
\* Convex hull
\* ------------------------------------------------------------------------

\* (a, b) => a.lng - b.lng || a.lat - b.lat, as a number
firstTruthy(x, y) == IF x.k # "nan" /\ x.m # 0 THEN x ELSE y

compareLngLat(a, b) == firstTruthy(FSub(a.lng, b.lng), FSub(a.lat, b.lat))

\* the comparator puts b before a
comesBefore(b, a) == FLt(compareLngLat(b, a), Zero)

\* p inserted into the sorted sequence s behind every element that does not
\* come after it (the sort is stable)
RECURSIVE insertSorted(_, _)
insertSorted(s, p) ==
  IF Len(s) = 0 THEN <<p>>
  ELSE IF comesBefore(p, s[Len(s)])
  THEN Append(insertSorted(SubSeq(s, 1, Len(s) - 1), p), s[Len(s)])
  ELSE Append(s, p)

\* [...points].sort(...): the first k points, sorted
RECURSIVE sortedCopy(_, _)
sortedCopy(points, k) ==
  IF k = 0 THEN <<>> ELSE insertSorted(sortedCopy(points, k - 1), points[k])

\* sorted.reverse()
reversed(s) == [j \in 1..Len(s) |-> s[Len(s) + 1 - j]]

\* (a.lng - o.lng) * (b.lat - o.lat) - (a.lat - o.lat) * (b.lng - o.lng)
cross(o, a, b) ==
  FSub(FMul(FSub(a.lng, o.lng), FSub(b.lat, o.lat)),
       FMul(FSub(a.lat, o.lat), FSub(b.lng, o.lng)))

\* variant: only a clockwise turn pops, collinear points stay
turnPopsStrict(c) == FLt(c, Zero)

\* cross(...) <= 0
turnPops(c) == c.k # "nan" /\ ~FLt(Zero, c)

\* while (chain.length >= 2 && cross(...) <= 0) chain.pop()
RECURSIVE popWhile(_, _)
popWhile(chain, p) ==
  IF Len(chain) >= 2 /\ turnPops(cross(chain[Len(chain) - 1], chain[Len(chain)], p))
  THEN popWhile(SubSeq(chain, 1, Len(chain) - 1), p)
  ELSE chain

\* for (const p of s) { while ... pop; chain.push(p) }, for the first k points of s
RECURSIVE buildChain(_, _)
buildChain(s, k) ==
  IF k = 0 THEN <<>> ELSE Append(popWhile(buildChain(s, k - 1), s[k]), s[k])

\* variant: the last point of a chain is not removed
withoutLastKept(chain) == chain

\* chain.pop() on a chain that is not empty
withoutLast(chain) == SubSeq(chain, 1, Len(chain) - 1)

\* variant: the lower chain alone, whole
hullLowerOnly(sorted) == buildChain(sorted, Len(sorted))

\* [...lower, ...upper] after the two pops
hullOfSorted(sorted) ==
  withoutLast(buildChain(sorted, Len(sorted)))
    \o withoutLast(buildChain(reversed(sorted), Len(sorted)))

\* variant: arrays of any length go through the scan
hullTooShortNever(points) == FALSE

\* points.length < 3
hullTooShort(points) == Len(points) < 3

\* Compute convex hull of points
convexHull(points) ==
  IF hullTooShort(points) THEN points ELSE hullOfSorted(sortedCopy(points, Len(points)))

\* variant: the caller's array is sorted in place
inputSortedInPlace(points) == sortedCopy(points, Len(points))

\* variant: the caller's array is sorted and reversed in place
inputSortedAndReversed(points) == reversed(sortedCopy(points, Len(points)))

\* the caller's array after convexHull: [...points] copies it before the
\* sort and the reversal
inputAfterHull(points) == points

\* ------------------------------------------------------------------------
\* Bounds of the model and the inputs drawn
\* ------------------------------------------------------------------------

\* longest input array
MaxPoints == 3

\* largest explicit maxIterations
MaxIter == 2

\* loop passes followed per call (a call that needs more is not followed on)
MaxPasses == 3

Pt(lat, lng) == [lat |-> FromInt(lat), lng |-> FromInt(lng)]

\* the points an input array is drawn from
Candidates == {Pt(45, -180), Pt(-45, 180), Pt(0, 180), Pt(87, 179)}

PointSeqs == UNION {[1..n -> Candidates] : n \in 0..MaxPoints}

\* an epsilon far above the default one: 4000 km
LargeEpsilon == FromInt(4000)

NoOptions == [hasMaxIterations |-> FALSE, maxIterations |-> 0,
              hasEpsilon |-> FALSE, epsilon |-> Zero]

Configs ==
  {NoOptions}
  \cup {[hasMaxIterations |-> TRUE, maxIterations |-> mi, hasEpsilon |-> TRUE, epsilon |-> ep] :
     mi \in 0..MaxIter, ep \in {Zero, LargeEpsilon}}
  \cup {[hasMaxIterations |-> TRUE, maxIterations |-> mi, hasEpsilon |-> FALSE, epsilon |-> Zero] :
     mi \in 0..MaxIter}
  \cup {[hasMaxIterations |-> FALSE, maxIterations |-> 0, hasEpsilon |-> TRUE, epsilon |-> ep] :
     ep \in {Zero, LargeEpsilon}}

\* the points a pair for the distance metric is drawn from: GeoPoint ranges,
\* their ends, and one finite value outside each range
GridLats == {-90, -45, 0, 30, 87, 90, 200}

GridLngs == {-720, -180, -179, 0, 45, 179, 180}

Grid == {Pt(la, lo) : la \in GridLats, lo \in GridLngs}

\* ------------------------------------------------------------------------
\* The hooks useNearbyStations and useStationSearch in Supabase mode:
\* isUsingMockData is false as long as the page lives, the branch of the
\* effect for mock data is never taken
\* ------------------------------------------------------------------------

\* a query is a sequence of characters; q.trim()
RECURSIVE trimStart(_)
trimStart(q) == IF q # <<>> /\ Head(q) = " " THEN trimStart(Tail(q)) ELSE q

RECURSIVE trimEnd(_)
trimEnd(q) == IF q # <<>> /\ q[Len(q)] = " " THEN trimEnd(SubSeq(q, 1, Len(q) - 1)) ELSE q

trim(q) == trimEnd(trimStart(q))

\* const debounceMs = options?.debounceMs ?? 300
debounceMs == 300

\* the time that passes in one step of the clock
tick == debounceMs \div 2

\* a timer: the query of the render that set it, and the time it has waited
\* setTimeout(() => { setDebouncedQuery(query) }, debounceMs)
setTimeout(timers, q) == timers \cup {[for |-> q, waited |-> 0]}

\* the timer after one step of the clock
later(t) ==
  [t EXCEPT !.waited = IF t.waited + tick < debounceMs THEN t.waited + tick ELSE debounceMs]

\* variant: the cleanup leaves the timer running
timerLeftRunning(timers) == timers

\* return () => clearTimeout(timer): the cleanup of the debounce effect
clearTimeout(timers) == {}

\* point === null: lat and lng are null
NoPoint(limit) == [isNull |-> TRUE, lat |-> 0, lng |-> 0, limit |-> limit]

\* variant: the query is not trimmed
noInputUntrimmed(h, v) ==
  IF h = "useNearbyStations" THEN v.isNull ELSE v = <<>>

\* the test that opens the effect: lat === null || lng === null in
\* useNearbyStations, !debouncedQuery.trim() in useStationSearch
noInput(h, v) ==
  IF h = "useNearbyStations" THEN v.isNull ELSE trim(v) = <<>>

\* error === null
NoError == "null"

\* what the rpc call of a request comes to: the promise resolves with
\* { data, error: apiError }, data a list of station ids or null, or
\* rejects with err
Resolved(data) ==
  [kind |-> "resolved", isNull |-> FALSE, data |-> data, isError |-> FALSE, message |-> ""]

ResolvedNull ==
  [kind |-> "resolved", isNull |-> TRUE, data |-> <<>>, isError |-> FALSE, message |-> ""]

ApiError(message) ==
  [kind |-> "apiError", isNull |-> TRUE, data |-> <<>>, isError |-> FALSE, message |-> message]

\* err is an Error with a message, or some other value
Rejected(isError, message) ==
  [kind |-> "rejected", isNull |-> TRUE, data |-> <<>>, isError |-> isError, message |-> message]

\* no outcome yet
Pending ==
  [kind |-> "pending", isNull |-> TRUE, data |-> <<>>, isError |-> FALSE, message |-> ""]

\* variant: the message of the outcome is dropped
messageUnknown(o) == "Unknown error"

\* apiError.message; err instanceof Error ? err.message : 'Unknown error'
messageOf(o) ==
  IF o.kind = "apiError" \/ o.isError THEN o.message ELSE "Unknown error"

\* data ?? []
dataOrEmpty(o) == IF o.isNull THEN <<>> ELSE o.data

\* let cancelled = false; the request of the run-th run of the effect
newRequest(v, run) ==
  [for |-> v, run |-> run, cancelled |-> FALSE, step |-> "pending", outcome |-> Pending]

\* variant: the cleanup leaves the flag as it is
cleanupKeepsFlag(reqs, lastRun) == reqs

\* return () => { cancelled = true }: the cleanup of the effect that ran
\* last sets the flag its own request's handlers read
cleanup(reqs, lastRun) ==
  [k \in DOMAIN reqs |->
     IF reqs[k].run = lastRun THEN [reqs[k] EXCEPT !.cancelled = TRUE] ELSE reqs[k]]

\* ------------------------------------------------------------------------
\* The station import: deduplicateStations and importStations
\* ------------------------------------------------------------------------

BATCH_SIZE == 500

\* const pageSize = 1000
pageSize == 1000

\* a string is a sequence of characters; a string or null:
Null == [isNull |-> TRUE, s |-> <<>>]

Str(s) == [isNull |-> FALSE, s |-> s]

\* line_name ?? ''
orEmpty(v) == IF v.isNull THEN <<>> ELSE v.s

\* variant: the name alone is the key
keyOfName(station) == station.name

\* `${station.name}::${station.line_name ?? ''}`
keyOf(station) == station.name \o <<":", ":">> \o orEmpty(station.line_name)

\* deduplicateStations: the stations after the k-th whose key is not in seen
RECURSIVE deduplicateFrom(_, _, _)
deduplicateFrom(stations, k, seen) ==
  IF k > Len(stations) THEN <<>>
  ELSE IF keyOf(stations[k]) \in seen
  THEN deduplicateFrom(stations, k + 1, seen)
  ELSE <<stations[k]>> \o deduplicateFrom(stations, k + 1, seen \cup {keyOf(stations[k])})

deduplicateStations(stations) == deduplicateFrom(stations, 1, {})

\* .select('name, line_name').range(offset, offset + pageSize - 1): the
\* rows of the table at the positions offset .. offset + pageSize - 1,
\* counted from 0
rangeOf(table, offset) ==
  SubSeq(table, offset + 1, IF offset + pageSize < Len(table) THEN offset + pageSize ELSE Len(table))

\* for (const row of data) keys.add(...)
keysAdded(keys, data) == keys \cup {keyOf(data[k]) : k \in DOMAIN data}

\* variant: a full page ends the paging
lastPageWhenFull(data) == Len(data) = 0 \/ Len(data) <= pageSize

\* !data || data.length === 0 -> break; data.length < pageSize -> break
lastPage(data) == Len(data) = 0 \/ Len(data) < pageSize

isNew(station, existingKeys) == keyOf(station) \notin existingKeys

\* filterNewStations
filterNewStations(stations, existingKeys) ==
  [newStations  |-> SelectSeq(stations, LAMBDA station : isNew(station, existingKeys)),
   skippedCount |-> Cardinality({k \in DOMAIN stations : ~isNew(stations[k], existingKeys)})]

\* variant: newStations.slice(i, BATCH_SIZE)
batchAtUpToSize(newStations, start) ==
  SubSeq(newStations, start + 1,
         IF BATCH_SIZE < Len(newStations) THEN BATCH_SIZE ELSE Len(newStations))

\* newStations.slice(i, i + BATCH_SIZE)
batchAt(newStations, start) ==
  SubSeq(newStations, start + 1,
         IF start + BATCH_SIZE < Len(newStations) THEN start + BATCH_SIZE ELSE Len(newStations))

\* the ImportResult returned
ImportResult(total, inserted, skippedDuplicate, failed, errors) ==
  [kind |-> "returned", total |-> total, inserted |-> inserted,
   skippedDuplicate |-> skippedDuplicate, failed |-> failed, errors |-> errors]

\* throw new Error(`Failed to fetch existing stations: ...`)
ImportThrown == [kind |-> "thrown", total |-> 0, inserted |-> 0, skippedDuplicate |-> 0,
                 failed |-> 0, errors |-> <<>>]

NoImportResult == [kind |-> "none", total |-> 0, inserted |-> 0, skippedDuplicate |-> 0,
                   failed |-> 0, errors |-> <<>>]

\* ------------------------------------------------------------------------
\* The locations in the URL: serializeLocations and deserializeLocations
\* ------------------------------------------------------------------------

MAX_URL_LOCATIONS == 10

COORD_PRECISION == 4

\* A string is a sequence of characters. The printable ASCII characters, in
\* the order of their codes 32 .. 126; the grave accent and a character
\* outside ASCII are written by their code points ("U+0060", "U+6771").
Ascii ==
  <<" ", "!", "\"", "#", "$", "%", "&", "'", "(", ")", "*", "+", ",", "-", ".", "/",
    "0", "1", "2", "3", "4", "5", "6", "7", "8", "9", ":", ";", "<", "=", ">", "?",
    "@", "A", "B", "C", "D", "E", "F", "G", "H", "I", "J", "K", "L", "M", "N", "O",
    "P", "Q", "R", "S", "T", "U", "V", "W", "X", "Y", "Z", "[", "\\", "]", "^", "_",
    "U+0060", "a", "b", "c", "d", "e", "f", "g", "h", "i", "j", "k", "l", "m", "n", "o",
    "p", "q", "r", "s", "t", "u", "v", "w", "x", "y", "z", "{", "|", "}", "~">>

\* the code point of a character
charCode(c) ==
  IF \E k \in DOMAIN Ascii : Ascii[k] = c
  THEN 31 + (CHOOSE k \in DOMAIN Ascii : Ascii[k] = c)
  ELSE IF c = "U+00E9" THEN 233 ELSE IF c = "U+6771" THEN 26481 ELSE 65533

\* the character of a code point; a code point the model has no character
\* for is the one character "U+FFFD"
fromCharCode(cp) ==
  IF cp \in 32..126 THEN Ascii[cp - 31]
  ELSE IF cp = 233 THEN "U+00E9" ELSE IF cp = 26481 THEN "U+6771" ELSE "U+FFFD"

\* the value of a digit in base 16, -1 for any other character
hexValue(c) ==
  LET code == charCode(c)
  IN  IF code \in 48..57 THEN code - 48
      ELSE IF code \in 65..70 THEN code - 55
      ELSE IF code \in 97..102 THEN code - 87
      ELSE 0 - 1

hexChars == <<"0", "1", "2", "3", "4", "5", "6", "7", "8", "9", "A", "B", "C", "D", "E", "F">>

\* "%XX" of one octet
percentOf(octet) == <<"%", hexChars[(octet \div 16) + 1], hexChars[(octet % 16) + 1]>>

\* the octets of the UTF-8 encoding of a code point of the basic plane
utf8(cp) ==
  IF cp < 128 THEN <<cp>>
  ELSE IF cp < 2048 THEN <<192 + (cp \div 64), 128 + (cp % 64)>>
  ELSE <<224 + (cp \div 4096), 128 + ((cp \div 64) % 64), 128 + (cp % 64)>>

\* the characters encodeURIComponent leaves as they are:
\* A-Z a-z 0-9 - _ . ! ~ * ' ( )
uriUnreserved(c) ==
  \/ charCode(c) \in (48..57) \cup (65..90) \cup (97..122)
  \/ c \in {"-", "_", ".", "!", "~", "*", "'", "(", ")"}

RECURSIVE percentAll(_)
percentAll(octets) ==
  IF octets = <<>> THEN <<>> ELSE percentOf(Head(octets)) \o percentAll(Tail(octets))

\* encodeURIComponent
RECURSIVE encodeURIComponent(_)
encodeURIComponent(s) ==
  IF s = <<>> THEN <<>>
  ELSE (IF uriUnreserved(Head(s)) THEN <<Head(s)>> ELSE percentAll(utf8(charCode(Head(s)))))
       \o encodeURIComponent(Tail(s))

\* what decodeURIComponent gives: the string returned, or thrown
Decoded(s) == [thrown |-> FALSE, s |-> s]

URIError == [thrown |-> TRUE, s |-> <<>>]

\* characters decoded in front of the rest of the decoding
decodedBefore(front, rest) == IF rest.thrown THEN rest ELSE Decoded(front \o rest.s)

\* the position of the first "%" of s from position k on, Len(s) + 1 when
\* there is none
nextEscape(s, k) ==
  CHOOSE p \in k..(Len(s) + 1) :
    /\ p = Len(s) + 1 \/ s[p] = "%"
    /\ \A j \in k..(p - 1) : s[j] # "%"

\* the octet written "%XX" at position k, -1 when that is not what is there
octetAt(s, k) ==
  IF k + 2 > Len(s) \/ s[k] # "%" THEN 0 - 1
  ELSE IF hexValue(s[k + 1]) < 0 \/ hexValue(s[k + 2]) < 0 THEN 0 - 1
  ELSE 16 * hexValue(s[k + 1]) + hexValue(s[k + 2])

\* the number of octets of the UTF-8 sequence a first octet starts, 0 when
\* no sequence starts with it
utf8Length(first) ==
  IF first \in 192..223 THEN 2
  ELSE IF first \in 224..239 THEN 3
  ELSE IF first \in 240..247 THEN 4
  ELSE 0

\* the least code point a UTF-8 sequence of n octets may encode
utf8Least(n) == IF n = 2 THEN 128 ELSE IF n = 3 THEN 2048 ELSE 65536

RECURSIVE utf8Value(_, _)
utf8Value(acc, continuation) ==
  IF continuation = <<>> THEN acc
  ELSE utf8Value(acc * 64 + (Head(continuation) - 128), Tail(continuation))

\* decodeURIComponent from position k on: the characters before the next
\* "%" stay as they are, a "%" starts the UTF-8 encoding of one code point,
\* anything malformed throws URIError
RECURSIVE decodeFrom(_, _)
decodeFrom(s, k) ==
  IF k > Len(s) THEN Decoded(<<>>)
  ELSE IF s[k] # "%"
  THEN decodedBefore(SubSeq(s, k, nextEscape(s, k) - 1), decodeFrom(s, nextEscape(s, k)))
  ELSE
    LET first == octetAt(s, k)
        n     == utf8Length(first)
    IN  IF first < 0 THEN URIError
        ELSE IF first < 128 THEN decodedBefore(<<fromCharCode(first)>>, decodeFrom(s, k + 3))
        ELSE IF n = 0 \/ k + 3 * n - 1 > Len(s) THEN URIError
        ELSE
          LET continuation == [j \in 1..(n - 1) |-> octetAt(s, k + 3 * j)]
              lead == IF n = 2 THEN first - 192 ELSE IF n = 3 THEN first - 224 ELSE first - 240
              cp   == utf8Value(lead, continuation)
          IN  IF \E j \in 1..(n - 1) : continuation[j] \notin 128..191 THEN URIError
              ELSE IF cp < utf8Least(n) \/ cp \in 55296..57343 \/ cp > 1114111 THEN URIError
              ELSE decodedBefore(<<fromCharCode(cp)>>, decodeFrom(s, k + 3 * n))

decodeURIComponent(s) == decodeFrom(s, 1)

\* String.prototype.indexOf of one character: counted from 0, -1 when absent
indexOf(s, c) ==
  IF \E k \in DOMAIN s : s[k] = c
  THEN (CHOOSE k \in DOMAIN s : s[k] = c /\ \A j \in 1..(k - 1) : s[j] # c) - 1
  ELSE 0 - 1

\* String.prototype.split on one character
RECURSIVE split(_, _)
split(s, separator) ==
  LET at == indexOf(s, separator)
  IN  IF at < 0 THEN <<s>>
      ELSE <<SubSeq(s, 1, at)>> \o split(SubSeq(s, at + 2, Len(s)), separator)

\* Array.prototype.join
RECURSIVE join(_, _)
join(parts, separator) ==
  IF parts = <<>> THEN <<>>
  ELSE IF Len(parts) = 1 THEN parts[1]
  ELSE parts[1] \o separator \o join(Tail(parts), separator)

\* A number is held in units of 10^-(COORD_PRECISION + 1), one decimal more
\* than the URL keeps; NotANumber and the infinities are values of their own.
Unit == 10 ^ (COORD_PRECISION + 1)

NotANumber == [kind |-> "NotANumber", v |-> 0]

Num(v) == [kind |-> "number", v |-> v]

Infinity(sign) == [kind |-> "Infinity", v |-> sign]

\* the degrees d as a number
Degrees(d) == Num(d * Unit)

\* x < y and x > y of two numbers, false when one is NotANumber
lessThan(x, y) ==
  /\ x.kind # "NotANumber" /\ y.kind # "NotANumber"
  /\ IF x.kind = "Infinity" THEN x.v < 0 /\ y # x
     ELSE IF y.kind = "Infinity" THEN y.v > 0
     ELSE x.v < y.v

greaterThan(x, y) == lessThan(y, x)

\* the digits s are all digits of the base radix, and there is one at least
digitsOf(s, radix) == s # <<>> /\ \A k \in DOMAIN s : hexValue(s[k]) \in 0..(radix - 1)

RECURSIVE valueIn(_, _)
valueIn(s, radix) ==
  IF s = <<>> THEN 0
  ELSE valueIn(SubSeq(s, 1, Len(s) - 1), radix) * radix + hexValue(s[Len(s)])

\* mantissa * 10^exponent in units, cut off below one unit
scaled(mantissa, exponent) ==
  IF exponent >= 0 THEN mantissa * (10 ^ exponent) ELSE mantissa \div (10 ^ (0 - exponent))

\* the exponent part of a decimal literal, after the e
exponentOf(s) ==
  IF s = <<>> THEN [valid |-> FALSE, value |-> 0]
  ELSE IF s[1] = "-" THEN [valid |-> digitsOf(Tail(s), 10), value |-> 0 - valueIn(Tail(s), 10)]
  ELSE IF s[1] = "+" THEN [valid |-> digitsOf(Tail(s), 10), value |-> valueIn(Tail(s), 10)]
  ELSE [valid |-> digitsOf(s, 10), value |-> valueIn(s, 10)]

\* StrUnsignedDecimalLiteral: Infinity, or digits with an optional point
\* and an optional exponent
unsignedDecimal(s) ==
  IF s = <<"I", "n", "f", "i", "n", "i", "t", "y">> THEN Infinity(1)
  ELSE
    LET e        == IF indexOf(s, "e") >= 0 THEN indexOf(s, "e") ELSE indexOf(s, "E")
        mantissa == IF e < 0 THEN s ELSE SubSeq(s, 1, e)
        exponent == IF e < 0 THEN [valid |-> TRUE, value |-> 0]
                    ELSE exponentOf(SubSeq(s, e + 2, Len(s)))
        point    == indexOf(mantissa, ".")
        whole    == IF point < 0 THEN mantissa ELSE SubSeq(mantissa, 1, point)
        fraction == IF point < 0 THEN <<>> ELSE SubSeq(mantissa, point + 2, Len(mantissa))
    IN  IF /\ exponent.valid
           /\ whole \o fraction # <<>>
           /\ \A k \in DOMAIN (whole \o fraction) : hexValue((whole \o fraction)[k]) \in 0..9
        THEN Num(scaled(valueIn(whole \o fraction, 10),
                        exponent.value - Len(fraction) + COORD_PRECISION + 1))
        ELSE NotANumber

negated(x) == IF x.kind = "NotANumber" THEN x ELSE [x EXCEPT !.v = 0 - x.v]

\* a literal 0x.., 0o.., 0b..
radixLiteral(s, radix) ==
  IF digitsOf(SubSeq(s, 3, Len(s)), radix)
  THEN Num(valueIn(SubSeq(s, 3, Len(s)), radix) * Unit)
  ELSE NotANumber

\* Number(string): StringToNumber. White space around the literal is
\* dropped, the empty string is 0, anything that is no numeric literal NotANumber.
Number(s) ==
  LET t == trim(s)
  IN  IF t = <<>> THEN Num(0)
      ELSE IF Len(t) >= 2 /\ t[1] = "0" /\ t[2] \in {"x", "X"} THEN radixLiteral(t, 16)
      ELSE IF Len(t) >= 2 /\ t[1] = "0" /\ t[2] \in {"o", "O"} THEN radixLiteral(t, 8)
      ELSE IF Len(t) >= 2 /\ t[1] = "0" /\ t[2] \in {"b", "B"} THEN radixLiteral(t, 2)
      ELSE IF t[1] = "-" THEN negated(unsignedDecimal(Tail(t)))
      ELSE IF t[1] = "+" THEN unsignedDecimal(Tail(t))
      ELSE unsignedDecimal(t)

Number_isNaN(x) == x.kind = "NotANumber"

RECURSIVE decimalOf(_)
decimalOf(n) ==
  IF n < 10 THEN <<hexChars[n + 1]>> ELSE decimalOf(n \div 10) \o <<hexChars[(n % 10) + 1]>>

RECURSIVE padStart(_, _, _)
padStart(s, length, c) == IF Len(s) >= length THEN s ELSE padStart(<<c>> \o s, length, c)

\* variant: the digits after fractionDigits are cut off
toFixedTruncating(x, fractionDigits) ==
  LET step   == Unit \div (10 ^ fractionDigits)
      a      == IF x.v < 0 THEN 0 - x.v ELSE x.v
      n      == a \div step
      all    == padStart(decimalOf(n), fractionDigits + 1, "0")
  IN  (IF x.v < 0 THEN <<"-">> ELSE <<>>)
      \o SubSeq(all, 1, Len(all) - fractionDigits)
      \o <<".">> \o SubSeq(all, Len(all) - fractionDigits + 1, Len(all))

\* Number.prototype.toFixed of a finite number: the sign, then the integer
\* n nearest to |x| * 10^fractionDigits, the larger one of two equally
\* near, written with a point before its last fractionDigits digits
toFixed(x, fractionDigits) ==
  LET step   == Unit \div (10 ^ fractionDigits)
      a      == IF x.v < 0 THEN 0 - x.v ELSE x.v
      n      == (a + (step \div 2)) \div step
      all    == padStart(decimalOf(n), fractionDigits + 1, "0")
  IN  (IF x.v < 0 THEN <<"-">> ELSE <<>>)
      \o SubSeq(all, 1, Len(all) - fractionDigits)
      \o <<".">> \o SubSeq(all, Len(all) - fractionDigits + 1, Len(all))

Location(label, lat, lng) == [label |-> label, lat |-> lat, lng |-> lng]

\* locations.slice(0, MAX_URL_LOCATIONS)
capped(locations) ==
  SubSeq(locations, 1,
         IF Len(locations) < MAX_URL_LOCATIONS THEN Len(locations) ELSE MAX_URL_LOCATIONS)

\* `${encodeURIComponent(loc.label)},${lat.toFixed(..)},${lng.toFixed(..)}`
encodedEntry(loc) ==
  encodeURIComponent(loc.label) \o <<",">> \o toFixed(loc.lat, COORD_PRECISION)
  \o <<",">> \o toFixed(loc.lng, COORD_PRECISION)

paramKey == <<"l", "o", "c", "a", "t", "i", "o", "n", "s">>

\* serializeLocations
serializeLocations(locations) ==
  IF Len(locations) = 0 THEN <<>>
  ELSE paramKey \o <<"=">>
       \o join([k \in DOMAIN capped(locations) |-> encodedEntry(capped(locations)[k])], <<"|">>)

\* what getRawParam gives: the raw value, null, or the URIError thrown by
\* decodeURIComponent(k)
RawParam(s) == [thrown |-> FALSE, isNull |-> FALSE, s |-> s]

NullParam == [thrown |-> FALSE, isNull |-> TRUE, s |-> <<>>]

ParamThrown == [thrown |-> TRUE, isNull |-> FALSE, s |-> <<>>]

\* getRawParam: for (const pair of cleaned.split('&')), from the k-th on
RECURSIVE rawParamFrom(_, _, _)
rawParamFrom(pairs, k, key) ==
  IF k > Len(pairs) THEN NullParam
  ELSE
    LET pair    == pairs[k]
        eqIndex == indexOf(pair, "=")
        name    == decodeURIComponent(IF eqIndex < 0 THEN pair ELSE SubSeq(pair, 1, eqIndex))
    IN  IF name.thrown THEN ParamThrown
        ELSE IF name.s = key
        THEN (IF eqIndex < 0 THEN RawParam(<<>>)
              ELSE RawParam(SubSeq(pair, eqIndex + 2, Len(pair))))
        ELSE rawParamFrom(pairs, k + 1, key)

\* search.startsWith('?') ? search.slice(1) : search
cleaned(search) == IF search # <<>> /\ search[1] = "?" THEN Tail(search) ELSE search

getRawParam(search, key) == rawParamFrom(split(cleaned(search), "&"), 1, key)

\* what deserializeLocations gives: the locations returned, or thrown
Locations(locations) == [thrown |-> FALSE, locations |-> locations]

DeserializeThrown == [thrown |-> TRUE, locations |-> <<>>]

\* lat < -90 || lat > 90 || lng < -180 || lng > 180
outOfRange(lat, lng) ==
  \/ lessThan(lat, Degrees(0 - 90)) \/ greaterThan(lat, Degrees(90))
  \/ lessThan(lng, Degrees(0 - 180)) \/ greaterThan(lng, Degrees(180))

\* raw.split('|')
splitEntries(raw) == split(raw, "|")

\* variant: the loop never stops early
capNeverReached(locations) == FALSE

\* if (locations.length >= MAX_URL_LOCATIONS) break
capReached(locations) == Len(locations) >= MAX_URL_LOCATIONS

\* deserializeLocations: for (const entry of entries), from the k-th on
RECURSIVE locationsFrom(_, _, _)
locationsFrom(entries, k, locations) ==
  IF k > Len(entries) \/ capReached(locations) THEN Locations(locations)
  ELSE
    LET parts == split(entries[k], ",")
        lng   == Number(parts[Len(parts)])
        lat   == Number(parts[Len(parts) - 1])
        label == decodeURIComponent(join(SubSeq(parts, 1, Len(parts) - 2), <<",">>))
    IN  IF Len(parts) < 3 THEN locationsFrom(entries, k + 1, locations)
        ELSE IF label.thrown THEN DeserializeThrown
        ELSE IF label.s = <<>> \/ Number_isNaN(lat) \/ Number_isNaN(lng)
        THEN locationsFrom(entries, k + 1, locations)
        ELSE IF outOfRange(lat, lng) THEN locationsFrom(entries, k + 1, locations)
        ELSE locationsFrom(entries, k + 1, Append(locations, Location(label.s, lat, lng)))

\* deserializeLocations
deserializeLocations(search) ==
  LET raw == getRawParam(search, paramKey)
  IN  IF raw.thrown THEN DeserializeThrown
      ELSE IF raw.isNull \/ raw.s = <<>> THEN Locations(<<>>)
      ELSE locationsFrom(splitEntries(raw.s), 1, <<>>)

\* ------------------------------------------------------------------------
\* State
\* ------------------------------------------------------------------------

VARIABLES
  pc,        \* "idle": before the call; "loop": in the Weiszfeld loop; "done"
  op,        \* the function called
  points,    \* the caller's input array
  options,   \* the caller's WeiszfeldOptions
  estimate,  \* geometricMedian: let estimate
  i,         \* geometricMedian: the loop counter
  result,    \* what the call threw or returned
  passes,    \* history: number of passes of the Weiszfeld loop so far
  lastPass   \* history: what the most recent pass of the loop did

VARIABLES
  coord,     \* toECEF: the coordinate returned, held by the caller
  hull,      \* convexHull: the array returned
  earlier,   \* history: per function, what its latest completed call returned
  calls      \* history: number of calls the caller has taken the result of

VARIABLES
  hook,             \* the hook rendered: "useNearbyStations" or "useStationSearch"
  query,            \* useStationSearch: the query prop
  timer,            \* useStationSearch: the debounce timers set and not cleared
  unchangedFor,     \* history: the time the query prop has kept its value
  replaced,         \* history: the query before this one was replaced within its window
  input,            \* what the effect depends on: lat, lng and limit, or debouncedQuery
  stations,         \* useState: stations
  error,            \* useState: error
  isLoading,        \* useState: isLoading
  requests,         \* the rpc calls issued, with the cancelled flag of each
  runs              \* history: number of runs of the effect so far

VARIABLES
  database,       \* the rows of the table stations, in the order of the table
  toImport,       \* main: const stations = deduplicateStations(rawStations)
  dryRun,         \* options.dryRun
  importPc,       \* "idle", "fetching" (fetchExistingKeys), "inserting", "done"
  existingKeys,   \* fetchExistingKeys: keys
  offset,         \* fetchExistingKeys: let offset
  newStations,    \* importStations: newStations
  skippedCount,   \* importStations: skippedCount
  batchStart,     \* importStations: the loop variable i
  inserted,       \* importStations: let inserted
  failed,         \* importStations: let failed
  errors,         \* importStations: errors
  importResult,   \* what importStations returned or threw
  insertCalls,    \* history: the calls of insert in this run, in their order
  databaseBefore, \* history: the table when this run started
  previousRun     \* history: the run before this one

importLocals ==
  <<existingKeys, offset, newStations, skippedCount, batchStart, inserted, failed, errors>>

importVars ==
  <<database, toImport, dryRun, importPc, importLocals, importResult, insertCalls,
    databaseBefore, previousRun>>

hookVars ==
  <<hook, query, timer, unchangedFor, replaced, input, stations, error, isLoading, requests, runs>>

VARIABLES
  locations,  \* the locations of the application
  written,    \* history: the entries and the separator a URL opened was written with
  search,     \* window.location.search
  restored,   \* what deserializeLocations(search) returned or threw
  urlPc       \* "idle", "serialized", then "roundtrip" or "parsed"

urlVars == <<locations, written, search, restored, urlPc>>

VARIABLES
  rawStations,   \* extractStations(geojson): the stations read from the file
  deduplicated   \* what deduplicateStations returned, call after call

dedupVars == <<rawStations, deduplicated>>

\* the state of the application outside the engine
appState == <<hookVars, importVars, urlVars, dedupVars>>

\* the caller's record of the calls made so far
callHistory == <<earlier, calls>>

\* what the calls of centroid, geometricMedian and haversineDistance leave alone
others == <<coord, hull, callHistory, appState>>

\* the local variables and the history of a call of geometricMedian
medianLocals == <<estimate, i, passes, lastPass>>

vars == <<pc, op, points, options, estimate, i, result, passes, lastPass, others>>

\* no call of any function has completed
NoneEarlier == [f \in {"centroid", "geometricMedian", "convexHull"} |-> <<>>]

NoPass == [start |-> Origin, evals |-> 0, hit |-> 0, averaged |-> FALSE, converged |-> FALSE]

\* no hook is rendered
HooksUnmounted ==
  /\ hook = "none"
  /\ query = <<>>
  /\ timer = {}
  /\ unchangedFor = 0
  /\ replaced = FALSE
  /\ input = <<>>
  /\ stations = <<>>
  /\ error = NoError
  /\ isLoading = FALSE
  /\ requests = <<>>
  /\ runs = 0

\* no run of the import before this one
NoRun == [number |-> 0, dryRun |-> FALSE, result |-> NoImportResult, database |-> <<>>]

\* the import is not running: an empty table and nothing to import
ImportIdle ==
  /\ importPc = "idle"
  /\ existingKeys = {}
  /\ offset = 0
  /\ newStations = <<>>
  /\ skippedCount = 0
  /\ batchStart = 0
  /\ inserted = 0
  /\ failed = 0
  /\ errors = <<>>
  /\ importResult = NoImportResult
  /\ insertCalls = <<>>
  /\ previousRun = NoRun

\* deduplicateStations is not called
DedupUnused ==
  /\ rawStations = <<>>
  /\ deduplicated = <<>>

ImportUnused ==
  /\ ImportIdle
  /\ DedupUnused
  /\ database = <<>>
  /\ databaseBefore = <<>>
  /\ toImport = <<>>
  /\ dryRun = FALSE

NotRestored == [thrown |-> FALSE, locations |-> <<>>]

NothingWritten == [entries |-> <<>>, separator |-> <<>>, key |-> <<>>]

\* no URL is written or read
UrlUnused ==
  /\ locations = <<>>
  /\ written = NothingWritten
  /\ search = <<>>
  /\ restored = NotRestored
  /\ urlPc = "idle"

\* no function of the engine is called
EngineIdle ==
  /\ pc = "idle"
  /\ op = "none"
  /\ estimate = Origin
  /\ i = 0
  /\ result = NoResult
  /\ passes = 0
  /\ lastPass = NoPass
  /\ coord = NoCoord
  /\ hull = <<>>
  /\ earlier = NoneEarlier
  /\ calls = 0

InitCall ==
  /\ EngineIdle
  /\ HooksUnmounted
  /\ ImportUnused
  /\ UrlUnused

\* A caller holding an input array and options for centroid or geometricMedian.
Init ==
  /\ InitCall
  /\ points \in PointSeqs
  /\ options \in Configs

\* A caller holding two points for the distance metric.
InitDistance ==
  /\ InitCall
  /\ points \in {<<a, b>> : a \in Grid, b \in Grid}
  /\ options = NoOptions

\* centroid(points)
CallCentroid ==
  /\ pc = "idle"
  /\ op' = "centroid"
  /\ result' = centroid(points)
  /\ pc' = "done"
  /\ UNCHANGED <<points, options, estimate, i, passes, lastPass, others>>

\* variant: the distance metric is not implemented
distanceCallNotImplemented(a, b) == Thrown("Not implemented")

\* haversineDistance(a, b), as the callers of the engine call it
distanceCall(a, b) == ReturnedNumber(haversineDistance(a, b))

\* haversineDistance(points[1], points[2])
CallDistance ==
  /\ pc = "idle"
  /\ Len(points) = 2
  /\ op' = "haversineDistance"
  /\ result' = distanceCall(points[1], points[2])
  /\ pc' = "done"
  /\ UNCHANGED <<points, options, estimate, i, passes, lastPass, others>>

\* geometricMedian(points, options) up to the loop
CallGeometricMedian ==
  /\ pc = "idle"
  /\ op' = "geometricMedian"
  /\ IF medianRejects(points)
     THEN /\ result' = Thrown("Cannot calculate geometric median of empty array")
          /\ pc' = "done"
          /\ UNCHANGED estimate
     ELSE IF fewPoints(points)
     THEN /\ result' = centroid(points)
          /\ pc' = "done"
          /\ UNCHANGED estimate
     ELSE /\ estimate' = centroid(points).point
          /\ pc' = "loop"
          /\ UNCHANGED result
  /\ i' = 0
  /\ UNCHANGED <<points, options, passes, lastPass, others>>

\* the rest of a pass whose inner loop ran to its end: next is the weighted
\* average, conv the outcome of the convergence check
PassAfterAverage(sums, next, conv) ==
  /\ lastPass' = [start |-> estimate, evals |-> sums.evals, hit |-> 0,
                  averaged |-> TRUE, converged |-> conv]
  /\ IF conv
     THEN /\ result' = Returned(next)
          /\ pc' = "done"
          /\ UNCHANGED <<estimate, i>>
     ELSE /\ estimate' = next
          /\ i' = i + 1
          /\ UNCHANGED <<pc, result>>

PassWithNext(sums, next) ==
  PassAfterAverage(sums, next, converged(estimate, next, epsilonOf(options)))

\* the rest of a pass after its inner loop
PassAfterInnerLoop(sums) ==
  IF sums.hit # 0
  THEN /\ lastPass' = [start |-> estimate, evals |-> sums.evals, hit |-> sums.hit,
                       averaged |-> FALSE, converged |-> FALSE]
       /\ result' = coincidentResult(points[sums.hit], estimate)
       /\ pc' = "done"
       /\ UNCHANGED <<estimate, i>>
  ELSE PassWithNext(sums, nextEstimate(sums))

\* one pass of the for loop of geometricMedian
WeiszfeldPass ==
  /\ pc = "loop"
  /\ loopContinues(i, maxIterationsOf(options))
  /\ passes < MaxPasses
  /\ PassAfterInnerLoop(innerLoop(points, estimate, epsilonOf(options), 1, noSums))
  /\ passes' = passes + 1
  /\ UNCHANGED <<op, points, options, others>>

\* the loop condition fails: return estimate
LoopExit ==
  /\ pc = "loop"
  /\ ~loopContinues(i, maxIterationsOf(options))
  /\ result' = bestEstimate(estimate)
  /\ pc' = "done"
  /\ UNCHANGED <<op, points, options, estimate, i, passes, lastPass, others>>

Next == CallCentroid \/ CallGeometricMedian \/ WeiszfeldPass \/ LoopExit

Spec == Init /\ [][Next]_vars

NextDistance == CallDistance

SpecDistance == InitDistance /\ [][NextDistance]_vars

\* ------------------------------------------------------------------------
\* toECEF followed by fromECEF
\* ------------------------------------------------------------------------

\* valid GeoPoints: both poles with several longitudes, both ends of the
\* longitude range, points of all four hemispheres
ValidLats == {-90, -87, -45, 0, 30, 60, 87, 90}

ValidLngs == {-180, -179, -135, -90, -45, 0, 45, 90, 135, 179, 180}

ValidPoints == {Pt(la, lo) : la \in ValidLats, lo \in ValidLngs}

\* A caller holding one valid point.
InitECEF ==
  /\ InitCall
  /\ points \in {<<p>> : p \in ValidPoints}
  /\ options = NoOptions

\* const ecef = toECEF(point)
CallToECEF ==
  /\ pc = "idle"
  /\ op' = "toECEF"
  /\ coord' = toECEF(points[1])
  /\ pc' = "converted"
  /\ UNCHANGED <<points, options, medianLocals, result, hull, callHistory, appState>>

\* const result = fromECEF(ecef)
CallFromECEF ==
  /\ pc = "converted"
  /\ op' = "fromECEF"
  /\ result' = Returned(fromECEF(coord))
  /\ pc' = "done"
  /\ UNCHANGED <<points, options, medianLocals, coord, hull, callHistory, appState>>

NextECEF == CallToECEF \/ CallFromECEF

SpecECEF == InitECEF /\ [][NextECEF]_vars

\* ------------------------------------------------------------------------
\* convexHull
\* ------------------------------------------------------------------------

\* longest input array of convexHull
MaxHullPoints == 4

\* the positions an input array of convexHull is drawn from: a triangle, a
\* point inside it, a point on one of its sides, a point with the lng of
\* another, and three points that are collinear but for one unit
HullCandidates ==
  {Pt(0, 0), Pt(0, 8), Pt(8, 0), Pt(2, 2), Pt(0, 4), Pt(20, 21), Pt(41, 43)}

HullInputs == UNION {[1..n -> HullCandidates] : n \in 0..MaxHullPoints}

\* A caller holding an input array for convexHull.
InitHull ==
  /\ InitCall
  /\ points \in HullInputs
  /\ options = NoOptions

\* convexHull(points)
CallConvexHull ==
  /\ pc = "idle"
  /\ op' = "convexHull"
  /\ hull' = convexHull(points)
  /\ points' = inputAfterHull(points)
  /\ pc' = "done"
  /\ UNCHANGED <<options, medianLocals, result, coord, callHistory, appState>>

NextHull == CallConvexHull

SpecHull == InitHull /\ [][NextHull]_vars

\* ------------------------------------------------------------------------
\* A caller that calls centroid, geometricMedian and convexHull several
\* times with the same array and the same options
\* ------------------------------------------------------------------------

\* results the caller takes before the last call
MaxCalls == 2

EngineConfigs ==
  {NoOptions}
  \cup {[hasMaxIterations |-> TRUE, maxIterations |-> 1, hasEpsilon |-> TRUE, epsilon |-> ep] :
     ep \in {Zero, LargeEpsilon}}

InitEngine ==
  /\ InitCall
  /\ points \in PointSeqs
  /\ options \in EngineConfigs

\* The caller takes what the call returned or threw; the activation of the
\* function and its local variables are gone, the array and the options
\* stay with the caller for the next call.
ReturnToCaller ==
  /\ pc = "done"
  /\ calls < MaxCalls
  /\ earlier' = [earlier EXCEPT ![op] = <<result, hull>>]
  /\ calls' = calls + 1
  /\ pc' = "idle"
  /\ op' = "none"
  /\ result' = NoResult
  /\ hull' = <<>>
  /\ estimate' = Origin
  /\ i' = 0
  /\ passes' = 0
  /\ lastPass' = NoPass
  /\ UNCHANGED <<points, options, coord, appState>>

NextEngine ==
  \/ CallCentroid
  \/ CallGeometricMedian
  \/ WeiszfeldPass
  \/ LoopExit
  \/ CallConvexHull
  \/ ReturnToCaller

SpecEngine == InitEngine /\ [][NextEngine]_vars

\* ------------------------------------------------------------------------
\* A component that renders useNearbyStations or useStationSearch while
\* the responses of the rpc calls arrive in any order
\* ------------------------------------------------------------------------

\* runs of the effect followed per behaviour
MaxRuns == 3

PointInputs ==
  {NoPoint(3)}
  \cup {[isNull |-> FALSE, lat |-> 35, lng |-> 139, limit |-> l] : l \in {3, 5}}
  \cup {[isNull |-> FALSE, lat |-> 34, lng |-> 135, limit |-> 3]}

Queries == {<<>>, <<" ">>, <<"a">>, <<"a", " ">>, <<"b">>}

InputsOf(h) == IF h = "useNearbyStations" THEN PointInputs ELSE Queries

\* what a request can come to
Outcomes ==
  {Resolved(<<2, 3>>), ResolvedNull, ApiError("permission denied"),
   Rejected(TRUE, "Failed to fetch"), Rejected(FALSE, "")}

InitHooks ==
  /\ EngineIdle
  /\ points = <<>>
  /\ options = NoOptions
  /\ hook \in {"useNearbyStations", "useStationSearch"}
  /\ input \in InputsOf(hook)
  /\ query = (IF hook = "useStationSearch" THEN input ELSE <<>>)
  /\ timer = {}
  /\ unchangedFor = 0
  /\ replaced = FALSE
  /\ stations = <<>>
  /\ error = NoError
  /\ isLoading = FALSE
  /\ requests = <<>>
  /\ runs = 0
  /\ ImportUnused
  /\ UrlUnused

engineVars == <<pc, op, points, options, medianLocals, result, coord, hull, callHistory>>

\* React runs the effect for the input v: the cleanup of the run before, if
\* there is one, then the body of the effect.
RunEffect(v) ==
  /\ runs' = runs + 1
  /\ IF noInput(hook, v)
     THEN /\ stations' = <<>>
          /\ error' = NoError
          /\ isLoading' = FALSE
          /\ requests' = cleanup(requests, runs)
     ELSE /\ isLoading' = TRUE
          /\ error' = NoError
          /\ requests' = Append(cleanup(requests, runs), newRequest(v, runs + 1))
          /\ UNCHANGED stations

\* the first render: useState(query) and both effects run
Mount ==
  /\ runs = 0
  /\ RunEffect(input)
  /\ timer' = (IF hook = "useStationSearch" THEN setTimeout({}, query) ELSE {})
  /\ unchangedFor' = 0
  /\ replaced' = FALSE
  /\ UNCHANGED <<hook, query, input, engineVars, importVars, urlVars, dedupVars>>

\* useNearbyStations is rendered with another point or limit
ChangePoint ==
  /\ hook = "useNearbyStations"
  /\ runs \in 1..(MaxRuns - 1)
  /\ \E v \in PointInputs \ {input} :
       /\ input' = v
       /\ RunEffect(v)
  /\ UNCHANGED <<hook, query, timer, unchangedFor, replaced, engineVars, importVars, urlVars, dedupVars>>

\* useStationSearch is rendered with another query: clearTimeout, setTimeout
ChangeQuery ==
  /\ hook = "useStationSearch"
  /\ runs \in 1..(MaxRuns - 1)
  /\ \E q \in Queries \ {query} :
       /\ query' = q
       /\ timer' = setTimeout(clearTimeout(timer), q)
  /\ unchangedFor' = 0
  /\ replaced' = (query # input /\ unchangedFor < debounceMs)
  /\ UNCHANGED <<hook, input, stations, error, isLoading, requests, runs,
                 engineVars, importVars, urlVars, dedupVars>>

\* time passes: every timer has waited longer, and the query has kept its
\* value longer
TimePasses ==
  /\ hook = "useStationSearch"
  /\ runs >= 1
  /\ unchangedFor < debounceMs \/ \E t \in timer : t.waited < debounceMs
  /\ timer' = {later(t) : t \in timer}
  /\ unchangedFor' = (IF unchangedFor + tick < debounceMs THEN unchangedFor + tick ELSE debounceMs)
  /\ UNCHANGED <<hook, query, replaced, input, stations, error, isLoading, requests, runs,
                 engineVars, importVars, urlVars, dedupVars>>

\* a debounce timer fires: setDebouncedQuery(query), with the query of the
\* render that set the timer; the effect runs if debouncedQuery changes
TimerFires(t) ==
  /\ t.waited >= debounceMs
  /\ timer' = timer \ {t}
  /\ IF t.for # input
     THEN /\ input' = t.for
          /\ RunEffect(t.for)
     ELSE UNCHANGED <<input, stations, error, isLoading, requests, runs>>
  /\ UNCHANGED <<hook, query, unchangedFor, replaced, engineVars, importVars, urlVars, dedupVars>>

DebounceElapsed == \E t \in timer : TimerFires(t)

\* .then(({ data, error: apiError }) => ...) and .catch((err) => ...):
\* the rpc call of the k-th request comes to the outcome o
Settle(k, o) ==
  /\ requests[k].step = "pending"
  /\ requests' = [requests EXCEPT ![k].step = "settled", ![k].outcome = o]
  /\ IF requests[k].cancelled
     THEN UNCHANGED <<stations, error>>
     ELSE IF o.kind = "resolved"
     THEN /\ stations' = dataOrEmpty(o)
          /\ UNCHANGED error
     ELSE /\ error' = messageOf(o)
          /\ stations' = <<>>
  /\ UNCHANGED <<hook, query, timer, unchangedFor, replaced, input, isLoading, runs,
                 engineVars, importVars, urlVars, dedupVars>>

ResponseArrives == \E k \in DOMAIN requests : \E o \in Outcomes : Settle(k, o)

\* .finally(() => ...) of the k-th request
Finally(k) ==
  /\ requests[k].step = "settled"
  /\ requests' = [requests EXCEPT ![k].step = "finished"]
  /\ isLoading' = (IF requests[k].cancelled THEN isLoading ELSE FALSE)
  /\ UNCHANGED <<hook, query, timer, unchangedFor, replaced, input, stations, error, runs,
                 engineVars, importVars, urlVars, dedupVars>>

ChainFinishes == \E k \in DOMAIN requests : Finally(k)

NextHooks ==
  \/ Mount
  \/ ChangePoint
  \/ ChangeQuery
  \/ TimePasses
  \/ DebounceElapsed
  \/ ResponseArrives
  \/ ChainFinishes

SpecHooks == InitHooks /\ [][NextHooks]_vars

\* ------------------------------------------------------------------------
\* The import script run several times on the same file
\* ------------------------------------------------------------------------

\* runs of the import per behaviour
MaxImports == 2

\* stations in the largest file
MaxStations == 1200

digit(d) == <<"0", "1", "2", "3", "4", "5", "6", "7", "8", "9">>[d + 1]

\* the decimal digits of n
RECURSIVE digits(_)
digits(n) ==
  IF n < 10 THEN <<digit(n)>> ELSE Append(digits(n \div 10), digit(n % 10))

\* the k-th station of a file of stations with different names and lines
numbered(k) ==
  [name |-> <<"S">> \o digits(k), line_name |-> Str(<<"L">> \o digits(k)),
   operator |-> Str(<<"T">>)]

numberedStations(n) == [k \in 1..n |-> numbered(k)]

Station(name, line_name, operator) ==
  [name |-> name, line_name |-> line_name, operator |-> operator]

\* station features of a small file: a station on two lines, with a line
\* name that is null or empty, and listed twice with different operators
Features ==
  {Station(<<"A">>, Str(<<"Y">>), Str(<<"T">>)),
   Station(<<"A">>, Str(<<"Y">>), Str(<<"U">>)),
   Station(<<"A">>, Null, Null),
   Station(<<"A">>, Str(<<>>), Null),
   Station(<<"B">>, Str(<<"Y">>), Str(<<"T">>))}

\* extractStations(geojson) of a small file
RawStations == UNION {[1..n -> Features] : n \in 0..2}

Files ==
  {deduplicateStations(raw) : raw \in RawStations}
  \cup {numberedStations(n) :
          n \in {BATCH_SIZE, BATCH_SIZE + 1, pageSize, pageSize + 1, MaxStations}}

\* what the table holds before the first run
Tables ==
  {<<>>, <<Station(<<"A">>, Str(<<>>), Null)>>, numberedStations(pageSize)}

InitImport ==
  /\ EngineIdle
  /\ points = <<>>
  /\ options = NoOptions
  /\ HooksUnmounted
  /\ ImportIdle
  /\ toImport \in Files
  /\ database \in Tables
  /\ databaseBefore = database
  /\ dryRun \in BOOLEAN
  /\ UrlUnused
  /\ DedupUnused

notImport == <<engineVars, hookVars, urlVars, dedupVars>>

\* const { newStations, skippedCount } = filterNewStations(...)
Filtered(filtered) ==
  /\ newStations' = filtered.newStations
  /\ skippedCount' = filtered.skippedCount

\* importStations(client, stations, options) up to the first await
CallImportStations ==
  /\ importPc = "idle"
  /\ IF dryRun
     THEN /\ importPc' = "done"
          /\ Filtered(filterNewStations(toImport, {}))
          /\ importResult' = ImportResult(Len(toImport), 0, 0, 0, <<>>)
     ELSE /\ importPc' = "fetching"
          /\ UNCHANGED <<newStations, skippedCount, importResult>>
  /\ UNCHANGED <<database, toImport, dryRun, existingKeys, offset, batchStart, inserted,
                 failed, errors, insertCalls, databaseBefore, previousRun, notImport>>

\* what follows the last page: filterNewStations and the start of the loop
AfterLastPage(keys) ==
  /\ Filtered(filterNewStations(toImport, keys))
  /\ importPc' = "inserting"

\* fetchExistingKeys: one pass of while (true), the query succeeds
PageFetched(data) ==
  /\ existingKeys' = keysAdded(existingKeys, data)
  /\ IF lastPage(data)
     THEN /\ AfterLastPage(keysAdded(existingKeys, data))
          /\ UNCHANGED offset
     ELSE /\ offset' = offset + pageSize
          /\ UNCHANGED <<newStations, skippedCount, importPc>>

FetchPage ==
  /\ importPc = "fetching"
  /\ PageFetched(rangeOf(database, offset))
  /\ UNCHANGED <<database, toImport, dryRun, batchStart, inserted, failed, errors,
                 importResult, insertCalls, databaseBefore, previousRun, notImport>>

\* fetchExistingKeys: the query comes back with an error, importStations throws
FetchFails ==
  /\ importPc = "fetching"
  /\ importResult' = ImportThrown
  /\ importPc' = "done"
  /\ UNCHANGED <<database, toImport, dryRun, importLocals, insertCalls, databaseBefore,
                 previousRun, notImport>>

\* `Batch ${currentBatch}/${totalBatches} failed: ${error.message}`
batchMessage(start, total, message) ==
  [currentBatch |-> (start \div BATCH_SIZE) + 1,
   totalBatches |-> (total + BATCH_SIZE - 1) \div BATCH_SIZE,
   message |-> message]

\* variant: no count is no row
countOrZero(hasCount, count, batch) == IF hasCount THEN count ELSE 0

\* count ?? batch.length
countOr(hasCount, count, batch) == IF hasCount THEN count ELSE Len(batch)

\* a call of insert: the batch passed, whether it came back with an error,
\* and the count it reported, if any
InsertCall(batch, hasError, hasCount, count) ==
  [batch |-> batch, failed |-> hasError, hasCount |-> hasCount, count |-> count]

\* the counts the database may report for a batch: its size, or one less
CountsFor(batch) == {Len(batch), Len(batch) - 1}

\* one pass of the loop, the insert of the batch succeeds and reports a
\* count or none
BatchInserted(batch, hasCount, count) ==
  /\ database' = database \o batch
  /\ inserted' = inserted + countOr(hasCount, count, batch)
  /\ insertCalls' = Append(insertCalls, InsertCall(batch, FALSE, hasCount, count))
  /\ UNCHANGED <<failed, errors>>

\* one pass of the loop, the insert of the batch fails
BatchFailed(batch) ==
  /\ errors' = Append(errors, batchMessage(batchStart, Len(newStations), "Connection timeout"))
  /\ failed' = failed + Len(batch)
  /\ insertCalls' = Append(insertCalls, InsertCall(batch, TRUE, FALSE, 0))
  /\ UNCHANGED <<database, inserted>>

InsertBatch ==
  /\ importPc = "inserting"
  /\ batchStart < Len(newStations)
  /\ \/ BatchInserted(batchAt(newStations, batchStart), FALSE, 0)
     \/ \E count \in CountsFor(batchAt(newStations, batchStart)) :
          BatchInserted(batchAt(newStations, batchStart), TRUE, count)
     \/ BatchFailed(batchAt(newStations, batchStart))
  /\ batchStart' = batchStart + BATCH_SIZE
  /\ UNCHANGED <<toImport, dryRun, importPc, existingKeys, offset, newStations, skippedCount,
                 importResult, databaseBefore, previousRun, notImport>>

\* the loop ends: return { total, inserted, skippedDuplicate, failed, errors }
ImportReturns ==
  /\ importPc = "inserting"
  /\ batchStart >= Len(newStations)
  /\ importResult' = ImportResult(Len(toImport), inserted, skippedCount, failed, errors)
  /\ importPc' = "done"
  /\ UNCHANGED <<database, toImport, dryRun, importLocals, insertCalls, databaseBefore,
                 previousRun, notImport>>

\* the script is run again on the same file, with or without --dry-run
ImportAgain ==
  /\ importPc = "done"
  /\ previousRun.number + 1 < MaxImports
  /\ previousRun' = [number |-> previousRun.number + 1, dryRun |-> dryRun, result |-> importResult,
                     database |-> database]
  /\ databaseBefore' = database
  /\ dryRun' \in BOOLEAN
  /\ importPc' = "idle"
  /\ existingKeys' = {}
  /\ offset' = 0
  /\ newStations' = <<>>
  /\ skippedCount' = 0
  /\ batchStart' = 0
  /\ inserted' = 0
  /\ failed' = 0
  /\ errors' = <<>>
  /\ importResult' = NoImportResult
  /\ insertCalls' = <<>>
  /\ UNCHANGED <<database, toImport, notImport>>

NextImport ==
  \/ CallImportStations
  \/ FetchPage
  \/ FetchFails
  \/ InsertBatch
  \/ ImportReturns
  \/ ImportAgain

SpecImport == InitImport /\ [][NextImport]_vars

\* ------------------------------------------------------------------------
\* The calls of serializeLocations and deserializeLocations
\* ------------------------------------------------------------------------

\* the longest list of locations, and the most entries of a URL
MaxLocations == 11

LabelChars == {"a", ",", "&", "|", "%", "=", " ", "U+6771"}

\* the labels of one or two characters, and the empty label
Labels ==
  {<<>>} \cup {<<c>> : c \in LabelChars} \cup {<<c, d>> : c \in LabelChars, d \in LabelChars}

\* 35.68125, -0.00004, 90, -89.99995 and 91 degrees
Latitudes == {Num(3568125), Num(0 - 4), Degrees(90), Num(0 - 8999995), Degrees(91)}

\* 139.76714, -180 and 179.99996 degrees
Longitudes == {Num(13976714), Degrees(0 - 180), Num(17999996)}

\* the k-th location of a long list: label p<k>, at k.00005 and -k degrees
numberedLocation(k) ==
  Location(<<"p">> \o decimalOf(k), Num(k * Unit + 5), Degrees(0 - k))

LocationLists ==
  {<<>>}
  \cup {<<Location(label, lat, lng)>> : label \in Labels, lat \in Latitudes, lng \in Longitudes}
  \cup {<<numberedLocation(1), Location(label, Num(0 - 4), Degrees(0 - 180))>> : label \in Labels}
  \cup {[k \in 1..n |-> numberedLocation(k)] : n \in 2..MaxLocations}

\* the entries of the URLs written by hand
\* a,35.5,139.25: an entry as serializeLocations writes none: no trailing zeros
entry_valid == <<"a", ",", "3", "5", ".", "5", ",", "1", "3", "9", ".", "2", "5">>

\* b,-90,180: the bounds of the ranges
entry_boundary == <<"b", ",", "-", "9", "0", ",", "1", "8", "0">>

\* c%2Cd,34,135: a label with an encoded comma
entry_encodedComma == <<"c", "%", "2", "C", "d", ",", "3", "4", ",", "1", "3", "5">>

\* e,f,34,135: a label with a comma written as it is
entry_literalComma == <<"e", ",", "f", ",", "3", "4", ",", "1", "3", "5">>

\* a,35: one coordinate only
entry_missingField == <<"a", ",", "3", "5">>

\* ,35,139: no label
entry_emptyLabel == <<",", "3", "5", ",", "1", "3", "9">>

\* a,abc,139: a latitude that is no number
entry_nonNumeric == <<"a", ",", "a", "b", "c", ",", "1", "3", "9">>

\* a,91,139
entry_latOutOfRange == <<"a", ",", "9", "1", ",", "1", "3", "9">>

\* a,35,-181
entry_lngOutOfRange == <<"a", ",", "3", "5", ",", "-", "1", "8", "1">>

\* a,,: both coordinates empty
entry_emptyCoordinates == <<"a", ",", ",">>

\* a,1e1,0x10: an exponent and a hexadecimal literal
entry_otherLiterals == <<"a", ",", "1", "e", "1", ",", "0", "x", "1", "0">>

\* a,Infinity,0
entry_infinite == <<"a", ",", "I", "n", "f", "i", "n", "i", "t", "y", ",", "0">>

\* a%,1,2: a % that starts no escape
entry_malformedEscape == <<"a", "%", ",", "1", ",", "2">>

WrittenEntries ==
  {entry_valid, entry_boundary, entry_encodedComma, entry_literalComma, entry_missingField, entry_emptyLabel, entry_nonNumeric,
   entry_latOutOfRange, entry_lngOutOfRange, entry_emptyCoordinates, entry_otherLiterals, entry_infinite, entry_malformedEscape}

\* the k-th entry of a long URL: p<k>,<k>,-<k>
numberedEntry(k) == <<"p">> \o decimalOf(k) \o <<",">> \o decimalOf(k) \o <<",", "-">> \o decimalOf(k)

\* entry put before the at-th of entries
insertedAt(entries, at, entry) ==
  SubSeq(entries, 1, at - 1) \o <<entry>> \o SubSeq(entries, at, Len(entries))

EntryLists ==
  {<<e>> : e \in WrittenEntries}
  \cup {<<e, f>> : e \in WrittenEntries, f \in WrittenEntries}
  \cup {[k \in 1..n |-> numberedEntry(k)] : n \in 9..MaxLocations}
  \cup {insertedAt([k \in 1..n |-> numberedEntry(k)], 3, e) :
           n \in {MaxLocations - 1}, e \in WrittenEntries}

literalPipe == <<"|">>

encodedPipe == <<"%", "7", "C">>

\* ?locations=, locations= and ?x=1&locations=
Keys ==
  {<<"?">> \o paramKey \o <<"=">>,
   paramKey \o <<"=">>,
   <<"?", "x", "=", "1", "&">> \o paramKey \o <<"=">>}

Writings ==
  [entries : EntryLists, separator : {literalPipe, encodedPipe}, key : Keys]

\* the search string of a URL written by hand
searchOf(w) == w.key \o join(w.entries, w.separator)

\* Either the application holds a list of locations, or a URL written by
\* hand is open.
InitUrl ==
  /\ EngineIdle
  /\ points = <<>>
  /\ options = NoOptions
  /\ HooksUnmounted
  /\ ImportUnused
  /\ restored = NotRestored
  /\ urlPc = "idle"
  /\ \/ locations \in LocationLists /\ written = NothingWritten /\ search = <<>>
     \/ locations = <<>> /\ written \in Writings /\ search = searchOf(written)

notUrl == <<engineVars, hookVars, importVars, dedupVars>>

\* deserializeLocations(`?${serializeLocations(locations)}`), first half
CallSerializeLocations ==
  /\ urlPc = "idle"
  /\ written = NothingWritten
  /\ search' = <<"?">> \o serializeLocations(locations)
  /\ urlPc' = "serialized"
  /\ UNCHANGED <<locations, written, restored, notUrl>>

\* deserializeLocations(search), of a URL just serialized or written by hand
CallDeserializeLocations ==
  /\ \/ urlPc = "serialized"
     \/ urlPc = "idle" /\ written # NothingWritten
  /\ restored' = deserializeLocations(search)
  /\ urlPc' = (IF urlPc = "serialized" THEN "roundtrip" ELSE "parsed")
  /\ UNCHANGED <<locations, written, search, notUrl>>

NextUrl == CallSerializeLocations \/ CallDeserializeLocations

SpecUrl == InitUrl /\ [][NextUrl]_vars

\* ------------------------------------------------------------------------
\* The calls of deduplicateStations on the stations read from a file
\* ------------------------------------------------------------------------

\* stations read from the largest file
MaxRawStations == 3

\* calls of deduplicateStations, each on what the call before returned
MaxApplications == 2

\* the station features of Features, and two stations of different names
\* and lines whose names and lines are joined to the same key
RawFeatures ==
  Features \cup {Station(<<"A", ":">>, Str(<<"Y">>), Str(<<"T">>)),
                 Station(<<"A">>, Str(<<":", "Y">>), Str(<<"U">>))}

InitDedup ==
  /\ EngineIdle
  /\ points = <<>>
  /\ options = NoOptions
  /\ HooksUnmounted
  /\ ImportIdle
  /\ database = <<>>
  /\ databaseBefore = <<>>
  /\ toImport = <<>>
  /\ dryRun = FALSE
  /\ UrlUnused
  /\ rawStations \in UNION {[1..n -> RawFeatures] : n \in 0..MaxRawStations}
  /\ deduplicated = <<>>

\* deduplicateStations(stations), on the stations read from the file and
\* then on the stations the call before returned
CallDeduplicateStations ==
  /\ Len(deduplicated) < MaxApplications
  /\ deduplicated' =
       Append(deduplicated,
              deduplicateStations(IF deduplicated = <<>> THEN rawStations
                                  ELSE deduplicated[Len(deduplicated)]))
  /\ UNCHANGED <<rawStations, engineVars, hookVars, importVars, urlVars>>

NextDedup == CallDeduplicateStations

SpecDedup == InitDedup /\ [][NextDedup]_vars

\* ------------------------------------------------------------------------
\* Properties
\* ------------------------------------------------------------------------

\* x as an integer multiple of 2^-(Prec + 4) (x finite, |x| >= 2^-(Prec + 4) or 0)
Exact(x) == x.m * 2^(x.e + Prec + 4)

\* the spacing of the numbers of the format around x, in the unit of Exact
Ulp(x) == 2^(x.e + Prec + 4)

RECURSIVE ExactSum(_, _, _)
ExactSum(ps, field, k) ==
  IF k = 0 THEN 0 ELSE ExactSum(ps, field, k - 1) + Exact(ps[k][field])

Max(S) == CHOOSE x \in S : \A y \in S : y <= x

Min(S) == CHOOSE x \in S : \A y \in S : x <= y

Coordinates(ps, field) == {Exact(ps[j][field]) : j \in 1..Len(ps)}

\* the spacing of the format at the input coordinate of largest magnitude
UlpOfLargest(ps, field) == Max({Ulp(ps[j][field]) : j \in 1..Len(ps)})

InsideBox(c, ps, field, slack) ==
  /\ c[field].k = "num"
  /\ Min(Coordinates(ps, field)) - slack <= Exact(c[field])
  /\ Exact(c[field]) <= Max(Coordinates(ps, field)) + slack

\* c[field] is the exact arithmetic mean of the inputs, up to slack
IsMean(c, ps, field, slack) ==
  /\ c[field].k = "num"
  /\ Abs(Len(ps) * Exact(c[field]) - ExactSum(ps, field, Len(ps)))
       <= Len(ps) * slack

AllCopies(ps) == Len(ps) >= 1 /\ \A j \in 1..Len(ps) : ps[j] = ps[1]

\* sum of the distances from c to the points, as the tests compute it
RECURSIVE totalDistance(_, _, _)
totalDistance(c, ps, k) ==
  IF k = 0 THEN Zero
  ELSE FAdd(totalDistance(c, ps, k - 1), haversineDistance(c, ps[k]))

CalledOnEmpty == op \in {"centroid", "geometricMedian"} /\ Len(points) = 0

\* C1: centroid and geometricMedian called with an empty array throw an Error
\* in the step of the call itself, for every options value, and leave no
\* point behind (no result point, no estimate, no loop pass).
Thm_C1_EmptyInputThrows ==
  CalledOnEmpty =>
    /\ pc = "done"
    /\ result.kind = "error"
    /\ result.msg = (IF op = "centroid"
                     THEN "Cannot calculate centroid of empty array"
                     ELSE "Cannot calculate geometric median of empty array")
    /\ result.point = Origin
    /\ estimate = Origin
    /\ passes = 0

Wit_C1_EmptyMedianWithOptions ==
  /\ CalledOnEmpty
  /\ op = "geometricMedian"
  /\ options.hasMaxIterations
  /\ options.hasEpsilon
  /\ result.kind = "error"

MedianReturned == pc = "done" /\ op = "geometricMedian" /\ result.kind = "value"

\* C2: for every non-empty array, geometricMedian with maxIterations = 0
\* returns exactly the lat and lng that centroid returns.
Thm_C2_ZeroIterationsIsCentroid ==
  (pc = "done" /\ op = "geometricMedian" /\ Len(points) >= 1
   /\ options.hasMaxIterations /\ options.maxIterations = 0)
    => result = Returned(centroidOf(points))

Wit_C2_ZeroIterationsThreePoints ==
  /\ MedianReturned
  /\ Len(points) >= 3
  /\ ~AllCopies(points)
  /\ options.hasMaxIterations /\ options.maxIterations = 0
  /\ result.point = centroidOf(points)

\* C3: for a non-empty array geometricMedian never throws and runs at most
\* maxIterations passes of its loop; when the passes are used up without a
\* return from inside the loop, it returns the last estimate.
Thm_C3_BoundedPassesBestEffort ==
  (op = "geometricMedian" /\ Len(points) >= 1) =>
    /\ passes <= maxIterationsOf(options)
    /\ result.kind # "error"
    /\ pc = "done" => result.kind = "value"
    /\ (pc = "done" /\ Len(points) >= 3 /\ passes = maxIterationsOf(options)
        /\ lastPass.hit = 0 /\ ~lastPass.converged)
         => result = Returned(estimate)

Wit_C3_IterationsExhausted ==
  /\ MedianReturned
  /\ Len(points) >= 3
  /\ options.hasMaxIterations /\ options.maxIterations >= 1
  /\ passes = options.maxIterations
  /\ lastPass.averaged /\ ~lastPass.converged
  /\ result.point = estimate

\* the distance from the estimate the last pass started from to points[j] is
\* below epsilon
Coincident(j) ==
  FLt(haversineDistance(lastPass.start, points[j]), epsilonOf(options))

\* C4: with 3 or more points, a pass in which some input point is closer than
\* epsilon to the current estimate ends the call at once: it returns the
\* first such point in input order, computes no distance beyond that point
\* and no weighted average, and leaves the estimate as it was.
Thm_C4_CoincidenceGuard ==
  (op = "geometricMedian" /\ Len(points) >= 3 /\ passes > 0
   /\ \E j \in 1..Len(points) : Coincident(j))
    => LET first == CHOOSE j \in 1..Len(points) :
                      Coincident(j) /\ \A h \in 1..(j - 1) : ~Coincident(h)
       IN /\ pc = "done"
          /\ result = Returned(points[first])
          /\ lastPass.hit = first
          /\ lastPass.evals = first
          /\ ~lastPass.averaged
          /\ estimate = lastPass.start

Wit_C4_GuardAtLaterPoint ==
  /\ MedianReturned
  /\ Len(points) >= 3
  /\ lastPass.hit >= 2
  /\ result.point = points[lastPass.hit]
  /\ result.point # lastPass.start

\* C5: for 1 or 2 points geometricMedian returns what centroid returns, for
\* every options value, without a pass of the loop.
Thm_C5_FewPointsAreCentroid ==
  (op = "geometricMedian" /\ Len(points) \in {1, 2}) =>
    /\ pc = "done"
    /\ result = Returned(centroidOf(points))
    /\ passes = 0
    /\ lastPass = NoPass

Wit_C5_TwoPointsWithOptions ==
  /\ MedianReturned
  /\ Len(points) = 2
  /\ points[1] # points[2]
  /\ options.hasMaxIterations /\ options.maxIterations >= 1
  /\ options.hasEpsilon
  /\ result.point = centroidOf(points)

\* C6: for 3 or more points, the sum of the distances from the result of
\* geometricMedian(points) to the points is at most the sum of the distances
\* from centroid(points) to the points.
Cex_C6_MedianNoWorseThanCentroid ==
  (MedianReturned /\ Len(points) >= 3 /\ options = NoOptions)
    => ~FLt(totalDistance(centroidOf(points), points, Len(points)),
            totalDistance(result.point, points, Len(points)))

CentroidReturned == pc = "done" /\ op = "centroid" /\ result.kind = "value"

WithinUlps(c, p, n) ==
  \A f \in {"lat", "lng"} :
    c[f].k = "num" /\ Abs(Exact(c[f]) - Exact(p[f])) <= n * Ulp(p[f])

Thm_C9_DistanceTotal ==
  op = "haversineDistance" =>
    /\ pc = "done"
    /\ result.kind = "number"
    /\ result.num.k = "num"

Wit_C9_DistanceOfDistinctPoints ==
  /\ pc = "done"
  /\ op = "haversineDistance"
  /\ points[1].lat # points[2].lat
  /\ points[1].lng # points[2].lng
  /\ points[2].lat = FromInt(200)
  /\ result.kind = "number"
  /\ FLt(Zero, result.num)

\* C10: the distance from a point to itself is 0.
Thm_C10_DistanceToItselfIsZero ==
  (pc = "done" /\ op = "haversineDistance" /\ points[1] = points[2])
    => result = ReturnedNumber(Zero)

Wit_C10_SamePointOffEquator ==
  /\ pc = "done"
  /\ op = "haversineDistance"
  /\ points[1] = points[2]
  /\ points[1].lat # Zero
  /\ points[1].lng # Zero
  /\ result.num = Zero

\* C11: the distance metric is symmetric: the number returned for (a, b) is
\* the number the metric returns for (b, a), bit for bit.
Thm_C11_DistanceSymmetric ==
  (pc = "done" /\ op = "haversineDistance")
    => result = distanceCall(points[2], points[1])

Wit_C11_SwappedDistinctPoints ==
  /\ pc = "done"
  /\ op = "haversineDistance"
  /\ points[1].lat # points[2].lat
  /\ points[1].lng # points[2].lng
  /\ FCos(toRad(points[1].lat)) # FCos(toRad(points[2].lat))
  /\ FLt(Zero, result.num)
  /\ result = distanceCall(points[2], points[1])

RoundTripReturned == pc = "done" /\ op = "fromECEF" /\ result.kind = "value"

\* the numbers a and b differ by at most tol
Close(a, b, tol) ==
  /\ a.k = "num"
  /\ ~FLt(tol, FSub(a, b))
  /\ ~FLt(tol, FSub(b, a))

\* what a latitude may lose on the way: near a pole sin(lat) is within a few
\* roundings of 1, so asin recovers lat up to sqrt(4 * 2^-Prec) radians
\* (1.2e-6 degrees for IEEE doubles, below the 5 decimal places of the tests)
LatTolerance == toDeg(FSqrt(Norm(1, 1, 2 - Prec, FALSE)))

\* what a longitude may lose: two units in the last place of 180
LngTolerance == Norm(1, 1, 9 - Prec, FALSE)

IsPole(p) == p.lat = FromInt(90) \/ p.lat = FromInt(-90)

\* C12: for every valid point p, fromECEF(toECEF(p)) recovers p.lat and
\* p.lng up to the rounding of the arithmetic: the latitude within
\* LatTolerance, the longitude within LngTolerance, at the poles for every
\* longitude and at lng = 180 and lng = -180 with its sign; the latitude of
\* a pole and the point (0, 0) are recovered exactly.
Thm_C12_RoundTripRecovers ==
  (pc = "done" /\ op = "fromECEF") =>
    /\ result.kind = "value"
    /\ Close(result.point.lat, points[1].lat, LatTolerance)
    /\ Close(result.point.lng, points[1].lng, LngTolerance)
    /\ IsPole(points[1]) => result.point.lat = points[1].lat
    /\ points[1] = Origin => result.point = Origin

Wit_C12_PoleKeepsLongitude ==
  /\ RoundTripReturned
  /\ points[1] = Pt(-90, -135)
  /\ FLt(coord.x, Zero) /\ FLt(coord.y, Zero)
  /\ Close(result.point.lng, FromInt(-135), LngTolerance)

\* ------------------------------------------------------------------------
\* Properties of convexHull
\* ------------------------------------------------------------------------

\* the value of a number that is an integer
IntOf(x) == IF x.e >= 0 THEN x.m * 2^(x.e) ELSE x.m \div 2^(-x.e)

\* the cross product of the source in exact arithmetic
exactCross(o, a, b) ==
  (IntOf(a.lng) - IntOf(o.lng)) * (IntOf(b.lat) - IntOf(o.lat))
    - (IntOf(a.lat) - IntOf(o.lat)) * (IntOf(b.lng) - IntOf(o.lng))

Positions(ps) == {ps[j] : j \in 1..Len(ps)}

AllCollinear(ps) ==
  \A o \in Positions(ps) : \A a \in Positions(ps) : \A b \in Positions(ps) :
    exactCross(o, a, b) = 0

\* the cross product the code computes has the sign of the exact one, for
\* every three input points
SignsExact(ps) ==
  \A o \in Positions(ps) : \A a \in Positions(ps) : \A b \in Positions(ps) :
    cross(o, a, b).k = "num" /\ Sgn(cross(o, a, b).m) = Sgn(exactCross(o, a, b))

\* the vertex after the k-th, cyclically
After(h, k) == h[(k % Len(h)) + 1]

\* every point of ps is inside or on the boundary of the polygon h, whose
\* vertices are in counter-clockwise order in (lng, lat)
ContainsAll(h, ps) ==
  \A k \in 1..Len(h) : \A q \in Positions(ps) : exactCross(h[k], After(h, k), q) >= 0

StrictlyCounterClockwise(h) ==
  /\ Len(h) >= 3
  /\ \A k \in 1..Len(h) : exactCross(h[k], After(h, k), After(h, k + 1)) > 0

NoVertexTwice(h) == \A j \in 1..Len(h) : \A k \in 1..Len(h) : h[j] = h[k] => j = k

HullReturned == pc = "done" /\ op = "convexHull"

FewDistinct == Cardinality(Positions(points)) < 3

\* C15 as stated: an input with fewer than 3 distinct points, of whatever
\* length, is returned unchanged.
Cex_C15_FewDistinctUnchanged ==
  (HullReturned /\ FewDistinct) => hull = points

\* C15 as amended: an input of 3 or more elements with fewer than 3 distinct
\* positions is not returned unchanged: one position A gives [A, A], two
\* positions give the two of them, each once, in (lng, lat) order; in both
\* cases the result has fewer than 3 points.
Thm_C15_FewDistinctCollapse ==
  (HullReturned /\ FewDistinct /\ Len(points) >= 3) =>
    /\ Len(hull) = 2
    /\ Positions(hull) = Positions(points)
    /\ hull[1] = hull[2] \/ comesBefore(hull[1], hull[2])

Wit_C15_RepeatedPositions ==
  /\ HullReturned
  /\ Len(points) = 3
  /\ Cardinality(Positions(points)) = 2
  /\ comesBefore(points[2], points[1])
  /\ hull = <<points[2], points[1]>>

\* C16: an input array of 0, 1 or 2 points is returned with the same points
\* in the same order.
Thm_C16_ShortInputUnchanged ==
  (HullReturned /\ Len(points) <= 2) => hull = points

Wit_C16_TwoPointsKeepOrder ==
  /\ HullReturned
  /\ Len(points) = 2
  /\ comesBefore(points[2], points[1])
  /\ hull = points

\* the coincidence guard of geometricMedian has returned
GuardReturned ==
  /\ pc = "done"
  /\ op = "geometricMedian"
  /\ lastPass.hit # 0

CalledBefore ==
  /\ pc = "done"
  /\ earlier[op] # <<>>

IssuedForEarlierInput(k) == requests[k].run < runs

\* a handler of the k-th request runs in this step
HandlerRuns(k) == requests'[k].step # requests[k].step

KeysBefore == {keyOf(databaseBefore[j]) : j \in DOMAIN databaseBefore}

\* importStations has returned from a run that was not a dry run
ImportReturned ==
  /\ importPc = "done"
  /\ ~dryRun
  /\ importResult.kind = "returned"

\* the run before this one was not a dry run and every batch it sent was
\* inserted
PreviousRunSucceeded ==
  /\ previousRun.number >= 1
  /\ ~previousRun.dryRun
  /\ previousRun.result.kind = "returned"
  /\ previousRun.result.failed = 0

\* the input stations with a key among keys are the ones counted in
\* skippedDuplicate, and no row added to the table has such a key
ExistingSkippedAndCounted(keys) ==
  /\ importResult.skippedDuplicate =
       Cardinality({k \in DOMAIN toImport : keyOf(toImport[k]) \in keys})
  /\ \A j \in (Len(databaseBefore) + 1)..Len(database) : keyOf(database[j]) \notin keys

\* C20: after a successful run, another run on the same file calls insert
\* never and leaves the table as it is, and reports inserted = 0 and every
\* input station in skippedDuplicate; in every run that is not a dry run, the
\* input stations whose key was in the table before the run are the ones
\* counted in skippedDuplicate, and no row with such a key is added.
Thm_C20_SecondImportInsertsNothing ==
  /\ PreviousRunSucceeded =>
       /\ insertCalls = <<>>
       /\ database = databaseBefore
       /\ ImportReturned =>
            /\ importResult.inserted = 0
            /\ importResult.skippedDuplicate = Len(toImport)
  /\ ImportReturned => ExistingSkippedAndCounted(KeysBefore)

Wit_C20_LargeFileImportedTwice ==
  /\ PreviousRunSucceeded
  /\ previousRun.result.inserted = MaxStations
  /\ ImportReturned
  /\ Len(toImport) = MaxStations
  /\ Len(database) > pageSize
  /\ importResult.skippedDuplicate = MaxStations

\* ------------------------------------------------------------------------
\* The locations in the URL
\* ------------------------------------------------------------------------

\* the number nearest to x with COORD_PRECISION decimals
roundedToPrecision(x) ==
  LET step == Unit \div (10 ^ COORD_PRECISION)
      near == ((2 * Abs(x.v) + step) \div (2 * step)) * step
  IN  Num(IF x.v < 0 THEN 0 - near ELSE near)

\* at most 10 locations, each with a label and coordinates in range
SerializableList ==
  /\ Len(locations) <= MAX_URL_LOCATIONS
  /\ \A k \in DOMAIN locations :
       locations[k].label # <<>> /\ ~outOfRange(locations[k].lat, locations[k].lng)

RestoredAsRounded ==
  /\ ~restored.thrown
  /\ Len(restored.locations) = Len(locations)
  /\ \A k \in DOMAIN locations :
       restored.locations[k] =
         Location(locations[k].label, roundedToPrecision(locations[k].lat),
                  roundedToPrecision(locations[k].lng))

SearchWithLiteralPipes == written.key \o join(written.entries, literalPipe)

\* C22: deserializeLocations separates the entries on "%7C" as it does on
\* "|": a URL whose entries are joined by "%7C" gives the locations the
\* same URL joined by "|" gives.
Cex_C22_EncodedPipeSeparatesEntries ==
  urlPc = "parsed" /\ written.separator = encodedPipe
    => restored = deserializeLocations(SearchWithLiteralPipes)

\* the field is written as a number: something other than white space that
\* Number reads as a number
writtenAsNumber(field) == trim(field) # <<>> /\ ~Number_isNaN(Number(field))

\* the label, the latitude and the longitude an entry is written with
fieldsOf(entry) ==
  LET parts == split(entry, ",")
  IN  [count |-> Len(parts),
       label |-> join(SubSeq(parts, 1, Len(parts) - 2), <<",">>),
       lat   |-> IF Len(parts) < 2 THEN <<>> ELSE parts[Len(parts) - 1],
       lng   |-> parts[Len(parts)]]

\* the entry has its three fields, a label that decodes to a non-empty
\* string, and coordinates written as numbers and in range
ValidEntry(entry) ==
  LET fields == fieldsOf(entry)
  IN  /\ fields.count >= 3
      /\ ~decodeURIComponent(fields.label).thrown
      /\ decodeURIComponent(fields.label).s # <<>>
      /\ writtenAsNumber(fields.lat) /\ writtenAsNumber(fields.lng)
      /\ ~outOfRange(Number(fields.lat), Number(fields.lng))

\* the location a valid entry stands for
locationOf(entry) ==
  Location(decodeURIComponent(fieldsOf(entry).label).s,
           Number(fieldsOf(entry).lat), Number(fieldsOf(entry).lng))

\* the locations of the valid entries, in the order of the entries
ValidLocations(entries) ==
  LET valid == SelectSeq(entries, ValidEntry)
  IN  [k \in DOMAIN valid |-> locationOf(valid[k])]

\* C23: of a URL whose entries are joined by "|", deserializeLocations
\* skips the entries with a missing field, an empty label, a coordinate
\* that is no number or is out of range, and returns the locations of the
\* other entries in their order (the first 10 of them): every location
\* returned has a non-empty label and coordinates in range that the URL
\* writes as numbers.
Cex_C23_InvalidEntriesSkipped ==
  urlPc = "parsed" /\ written.separator = literalPipe
    => restored = Locations(capped(ValidLocations(written.entries)))

\* the locations deserializeLocations returns for each of the entries alone,
\* one after the other
RECURSIVE acceptedAlone(_, _)
acceptedAlone(entries, k) ==
  IF k > Len(entries) THEN <<>>
  ELSE deserializeLocations(paramKey \o <<"=">> \o entries[k]).locations
       \o acceptedAlone(entries, k + 1)

\* the entries serializeLocations is to write: those of the first 10 locations
FirstTenEncoded ==
  [k \in 1..(IF Len(locations) < 10 THEN Len(locations) ELSE 10) |-> encodedEntry(locations[k])]

\* the search string is "?locations=" and the entries joined by "|", or "?"
\* alone when there is no entry
SearchHolds(entries) ==
  search = (IF entries = <<>> THEN <<"?">>
            ELSE <<"?">> \o paramKey \o <<"=">> \o join(entries, literalPipe))

\* the locations returned are the first 10 that the entries give
ReturnsFirstTenOf(entries) ==
  /\ Len(restored.locations) <= 10
  /\ ~restored.thrown => restored.locations = SubSeq(acceptedAlone(entries, 1), 1, Len(restored.locations))
  /\ ~restored.thrown => Len(restored.locations) = 10 \/ Len(restored.locations) = Len(acceptedAlone(entries, 1))

ForCurrentInput(k) == requests[k].run = runs

\* the promise chain of the k-th request comes to its end in this step
ChainEnds(k) == requests[k].step = "settled" /\ requests'[k].step = "finished"

\* the rpc call came back with an API error, or its promise was rejected
EndedInError(k) == requests[k].outcome.kind \in {"apiError", "rejected"}

\* the message of the API error or of the Error the promise was rejected with
ShowsErrorOf(o) ==
  /\ error' # NoError
  /\ o.kind = "apiError" \/ o.isError => error' = o.message
  /\ stations' = <<>>
  /\ isLoading' = FALSE

\* C25: in both hooks, when the request for the current input ends with an
\* API error or a rejected promise, error is the message of the error,
\* stations is empty and isLoading is false; a step that issues the next
\* request sets error to null.
Thm_C25_ErrorShownThenReset ==
  [][/\ \A k \in DOMAIN requests :
          ForCurrentInput(k) /\ ChainEnds(k) /\ EndedInError(k) => ShowsErrorOf(requests[k].outcome)
     /\ Len(requests') > Len(requests) => error' = NoError]_vars

\* the second request was rejected and came to its end as the current one
Wit_C25_RejectionShown ==
  /\ Len(requests) = 2
  /\ runs = 2
  /\ requests[2].step = "finished"
  /\ requests[2].outcome = Rejected(TRUE, "Failed to fetch")
  /\ error = "Failed to fetch"
  /\ stations = <<>>
  /\ isLoading = FALSE

\* the point is null, or the debounced query holds nothing but spaces
InputIsBlank ==
  IF hook = "useNearbyStations" THEN input.isNull
  ELSE \A k \in DOMAIN input : input[k] = " "

\* the promise chain of the k-th request has not come to its end
InFlight(k) == requests[k].step # "finished"

\* C29: in both hooks, once the effect has run, and whatever input changes
\* and settlements came in whatever order, isLoading is false when the
\* input is null or blank, and otherwise true exactly as long as the chain
\* of the request issued for the current input has not come to its end.
Thm_C29_LoadingWhileCurrentPending ==
  runs >= 1 =>
    IF InputIsBlank THEN isLoading = FALSE
    ELSE \E k \in DOMAIN requests : ForCurrentInput(k) /\ isLoading = InFlight(k)

\* the request of an earlier input came to its end while the current one
\* is pending
Wit_C29_StillLoadingAfterStaleEnd ==
  /\ Len(requests) >= 2
  /\ requests[1].step = "finished"
  /\ requests[Len(requests)].step = "pending"
  /\ ForCurrentInput(Len(requests))
  /\ isLoading = TRUE

\* ------------------------------------------------------------------------
\* The debounce of useStationSearch
\* ------------------------------------------------------------------------

\* the search effect runs again in this step
SearchStarts == hook = "useStationSearch" /\ runs >= 1 /\ runs' > runs

\* no timer is waiting: the window of the latest query is over
WindowOver == hook = "useStationSearch" /\ runs >= 1 /\ timer = {}

\* the request for the current input is the one for the query, and what it
\* resolved with is what stations holds
LatestQueryShown ==
  /\ input = query
  /\ ~InputIsBlank =>
       \E k \in DOMAIN requests :
         /\ ForCurrentInput(k)
         /\ requests[k].for = query
         /\ requests[k].step = "finished" /\ requests[k].outcome.kind = "resolved"
              => stations = dataOrEmpty(requests[k].outcome)

WithoutKeys(keys) == SelectSeq(toImport, LAMBDA station : keyOf(station) \notin keys)

\* the input stations whose key the table did not hold when this run
\* started, in input order
NotYetExisting == WithoutKeys(KeysBefore)

\* the stations of sequence all at the positions of the nth batch of
\* BATCH_SIZE
NthBatchOf(all, nth) ==
  SubSeq(all, (nth - 1) * BATCH_SIZE + 1,
         IF nth * BATCH_SIZE < Len(all) THEN nth * BATCH_SIZE ELSE Len(all))

\* the batches needed for the stations of sequence all
BatchesFor(all) == (Len(all) + BATCH_SIZE - 1) \div BATCH_SIZE

\* the calls of insert that came back with an error
FailedCalls == {c \in DOMAIN insertCalls : insertCalls[c].failed}

\* the stations in the batches of the calls of set among
RECURSIVE StationsIn(_)
StationsIn(among) ==
  IF among = {} THEN 0
  ELSE LET c == CHOOSE n \in among : TRUE
       IN  Len(insertCalls[c].batch) + StationsIn(among \ {c})

\* the calls of insert so far passed the batches of sequence all, the
\* failures are counted, and a run that has returned has sent every batch
SentInBatchesOf(all) ==
  /\ \A c \in DOMAIN insertCalls :
       /\ insertCalls[c].batch = NthBatchOf(all, c)
       /\ Len(insertCalls[c].batch) \in 1..BATCH_SIZE
  /\ importPc = "inserting" =>
       /\ failed = StationsIn(FailedCalls)
       /\ Len(errors) = Cardinality(FailedCalls)
  /\ ImportReturned =>
       /\ Len(insertCalls) = BatchesFor(all)
       /\ importResult.failed = StationsIn(FailedCalls)
       /\ Len(importResult.errors) = Cardinality(FailedCalls)

\* C27: the batches passed to insert are, in their order, the consecutive
\* stretches of at most 500 of the input stations the table did not hold, in
\* input order; failed is the number of stations in the batches whose insert
\* failed and errors has one message for each of those batches; and when
\* importStations returns, every batch has been sent, whichever of them
\* failed.
Thm_C27_BatchesContinueAfterFailure ==
  insertCalls # <<>> \/ ImportReturned => SentInBatchesOf(NotYetExisting)

Wit_C27_SecondBatchFailedThirdSent ==
  /\ ImportReturned
  /\ Len(insertCalls) = 3
  /\ FailedCalls = {2}
  /\ Len(insertCalls[3].batch) = MaxStations - 2 * BATCH_SIZE
  /\ importResult.failed = BATCH_SIZE
  /\ Len(importResult.errors) = 1
  /\ importResult.inserted > 0

\* the database reported, for every batch it inserted, a count equal to the
\* size of the batch or no count
CountsAsSent ==
  \A c \in DOMAIN insertCalls :
    ~insertCalls[c].failed /\ insertCalls[c].hasCount =>
      insertCalls[c].count = Len(insertCalls[c].batch)

\* C30: when importStations returns from a run that is not a dry run and
\* every count the database reported was the size of the batch, total is the
\* number of input stations and equals inserted + skippedDuplicate + failed.
Thm_C30_EveryStationCountedOnce ==
  ImportReturned /\ CountsAsSent =>
    /\ importResult.total = Len(toImport)
    /\ importResult.total =
         importResult.inserted + importResult.skippedDuplicate + importResult.failed

Wit_C30_InsertedSkippedAndFailed ==
  /\ ImportReturned
  /\ CountsAsSent
  /\ importResult.inserted > 0
  /\ importResult.skippedDuplicate > 0
  /\ importResult.failed > 0
  /\ \E c \in DOMAIN insertCalls : ~insertCalls[c].failed /\ insertCalls[c].hasCount

\* the positions in sequence raw of the stations whose key no station
\* before them has
FirstOfKey(raw) ==
  {k \in DOMAIN raw : \A j \in 1..(k - 1) : keyOf(raw[j]) # keyOf(raw[k])}

\* the nth position, in increasing order, of the positions of set among
NthOf(among, nth) == CHOOSE k \in among : Cardinality({j \in among : j < k}) = nth - 1

\* sequence out is sequence raw without the stations whose key a station
\* before them has, in the order of raw
FirstOccurrencesOf(raw, out) ==
  /\ Len(out) = Cardinality(FirstOfKey(raw))
  /\ \A nth \in DOMAIN out : out[nth] = raw[NthOf(FirstOfKey(raw), nth)]

\* the k-th station of raw has the name of a station before it, is on
\* another line than every station of that name before it, and has another
\* key than the stations of other names before it
OnAnotherLine(raw, k) ==
  /\ \E j \in 1..(k - 1) : raw[j].name = raw[k].name
  /\ \A j \in 1..(k - 1) :
       IF raw[j].name = raw[k].name
       THEN orEmpty(raw[j].line_name) # orEmpty(raw[k].line_name)
       ELSE keyOf(raw[j]) # keyOf(raw[k])

\* the stations of sequence out
StationsOf(out) == {out[nth] : nth \in DOMAIN out}

====
